---- MODULE Spec2Model ----
(***************************************************************************)
(* Perception-and-decision pipeline of the autonomous vehicle:             *)
(*   core/navigation_ai.py   NavigationAI (rule evaluation, action filter) *)
(*   core/vision_system.py   NavigationVisionSystem (direction, stabilizer)*)
(*   core/sensor_manager.py  SensorManager (range reading)                 *)
(*   main.py                 SmartVehicle (main loop, dispatch)            *)
(*   core/motor_controller.py MotorController (command interface)          *)
(*                                                                         *)
(* Numbers: distances are whole centimetres, confidences of the traffic    *)
(* light are hundredths (0.7 is 70), a stabilizer confidence count/len is  *)
(* kept as the pair [num |-> count, den |-> len] and compared exactly.     *)
(***************************************************************************)
EXTENDS Integers, Sequences, FiniteSets, TLC

\* ------------------------------------------------------------------------
\* Bounds of the model
\* ------------------------------------------------------------------------
MaxCycles == 5
MaxFrames == 10
MaxLoops == 4

\* ------------------------------------------------------------------------
\* Program constants
\* ------------------------------------------------------------------------
obstacle_stop_distance == 20
safe_distance == 30
default_speed == 75
reduced_speed == 50
obstacle_threshold == 20
TimeoutDistance == 400
DecisionHistoryMaxlen == 5
PreviousActionsMaxlen == 10
ResolutionWidth == 640
DefaultThreshold == 40
history_length == 5
skip_frames == 2
MotorDefaultSpeed == 75
min_speed == 20
max_speed == 100
EmergencyDistance == 15

\* ------------------------------------------------------------------------
\* Value sets
\* ------------------------------------------------------------------------
LaneDirections == {"STRAIGHT", "LEFT", "RIGHT", "SHARP_LEFT", "SHARP_RIGHT", "UNKNOWN"}
TrafficLights == {"RED", "GREEN", "UNKNOWN"}
TrafficConfidences == {0, 70, 71, 90}
Distances == {10, 14, 15, 19, 20, 29, 30, 31, 400}
StopActions == {"EMERGENCY_STOP", "TRAFFIC_STOP", "STOP_SIGN_STOP", "STOP"}

Environments ==
    [lane_direction : LaneDirections,
     traffic_light : TrafficLights,
     traffic_light_confidence : TrafficConfidences,
     speed_limit_detected : BOOLEAN,
     stop_sign_detected : BOOLEAN,
     obstacle_distance : Distances,
     obstacle_detected : BOOLEAN]

NoDecision == [action |-> "NONE", speed |-> 0, reason |-> "none"]
NoSensorData == [distance |-> TimeoutDistance, obstacle_detected |-> FALSE,
                 obstacle_threshold |-> obstacle_threshold]
NoEnvironment ==
    [lane_direction |-> "UNKNOWN", traffic_light |-> "UNKNOWN",
     traffic_light_confidence |-> 0, speed_limit_detected |-> FALSE,
     stop_sign_detected |-> FALSE, obstacle_distance |-> TimeoutDistance,
     obstacle_detected |-> FALSE]


\* dict.get(key, default)
Get(d, key, default) == IF key \in DOMAIN d THEN d[key] ELSE default

VARIABLES
    sensor_data,        \* record returned by SensorManager.read_sensor_data
    environment,        \* the environment analysed in the current cycle
    raw_decision,       \* result of make_navigation_decision in the cycle
    decision,           \* decision returned by process_navigation
    decision_history,   \* NavigationAI.decision_history, deque(maxlen=5)
    previous_actions,   \* NavigationAI.previous_actions, deque(maxlen=10)
    current_state,      \* NavigationAI.current_state
    cycles,             \* number of process_navigation calls so far
    direction_args,     \* arguments of a get_navigation_direction call
    detected_direction, \* its result
    frame_skip_counter,     \* NavigationVisionSystem.frame_skip_counter
    lane_direction_history, \* NavigationVisionSystem.lane_direction_history
    current_direction,      \* NavigationVisionSystem.current_direction
    lane_confidence,        \* NavigationVisionSystem.lane_confidence
    obstacle_history,       \* NavigationVisionSystem.obstacle_history
    obstacle_detected,      \* NavigationVisionSystem.obstacle_detected
    obstacle_confidence,    \* NavigationVisionSystem.obstacle_confidence
    navigation_data,        \* NavigationVisionSystem.navigation_data
    auto_mode,          \* SmartVehicle.auto_mode
    manual_override,    \* SmartVehicle.manual_override
    emergency_stop,     \* SmartVehicle.emergency_stop
    loop_count,         \* SmartVehicle.loop_count
    ticks,              \* iterations of the main loop started so far
    commands,           \* command_data records handed to the motor
                        \* controller in the current iteration, in order
    motor,              \* the MotorController's fields
    stop_detection_history,     \* NavigationVisionSystem.stop_detection_history
    stop_detection_confidence,  \* NavigationVisionSystem.stop_detection_confidence
    stop_sign_detected,         \* NavigationVisionSystem.stop_sign_detected
    speed_limit_history,        \* NavigationVisionSystem.speed_limit_history
    speed_limit_confidence,     \* NavigationVisionSystem.speed_limit_confidence
    speed_limit_detected,       \* NavigationVisionSystem.speed_limit_detected
    errors_logged,      \* the error records the logger got in the iteration
    command_received,   \* the type of the app command handled in the
                        \* iteration ("none" when there was none)
    contours,           \* detect_traffic_lights: the contours of the masks
    lights,             \* detect_traffic_lights: the list it returns
    prev_lights,        \* track_lights: the lights of the frame before
    tracked_lights,     \* track_lights: the first list it returns
    light_matches,      \* track_lights: best_match of each previous light
    wifi,               \* the WiFiHandler's fields and what its socket sent
    ble,                \* the BLEHandler's fields and what its socket sent
    manager,            \* the ProtocolManager's fields
    last_call           \* the last communication call and what it returned

navVars == <<sensor_data, environment, raw_decision, decision, decision_history,
             previous_actions, current_state, cycles>>

dirVars == <<direction_args, detected_direction>>

visVars == <<frame_skip_counter, lane_direction_history, current_direction,
             lane_confidence, obstacle_history, obstacle_detected,
             obstacle_confidence, navigation_data>>

loopVars == <<auto_mode, manual_override, emergency_stop, loop_count, ticks,
              commands, motor, errors_logged, command_received>>

signVars == <<stop_detection_history, stop_detection_confidence,
              stop_sign_detected, speed_limit_history, speed_limit_confidence,
              speed_limit_detected>>

lightVars == <<contours, lights, prev_lights, tracked_lights, light_matches>>

commVars == <<wifi, ble, manager, last_call>>

vars == <<navVars, dirVars, visVars, loopVars, signVars, lightVars, commVars>>

\* ------------------------------------------------------------------------
\* MotorController: the fields the command interface reads and writes.
\* motor_state's four per-wheel entries always hold the same direction and
\* speed (_update_motor_state writes all four alike): wheel_direction and
\* wheel_speed.  Of runtime_stats only total_commands is kept; timestamps
\* are not kept.
\* __init__ runs _setup_gpio first, which reads self.TRIG and self.ECHO;
\* the class never assigns them.  InitMotor is the state described by the
\* assignments of __init__.
\* ------------------------------------------------------------------------
InitMotor ==
    [current_speed |-> 0,
     smooth_control |-> TRUE,
     emergency_stop_active |-> FALSE,
     current_action |-> "stopped",
     target_speed |-> 0,
     actual_speed |-> 0,
     wheel_direction |-> "stop",
     wheel_speed |-> 0,
     default_speed |-> MotorDefaultSpeed,
     max_speed |-> max_speed,
     min_speed |-> min_speed,
     total_commands |-> 0]

InitVehicle ==
    /\ auto_mode = FALSE
    /\ manual_override = FALSE
    /\ emergency_stop = FALSE
    /\ loop_count = 0
    /\ ticks = 0
    /\ commands = <<>>
    /\ motor = InitMotor
    /\ errors_logged = <<>>
    /\ command_received = "none"

Min(a, b) == IF a < b THEN a ELSE b
Max(a, b) == IF a > b THEN a ELSE b

\* the result of a motor operation: its return value and the new fields
Done(ok, m) == [success |-> ok, motor |-> m]

\* _update_motor_state(action, speed); direction is the first of forward,
\* backward, stop, turn_left, turn_right contained in the action string
update_motor_state(m, action, speed) ==
    LET direction ==
            IF action = "forward" THEN "forward"
            ELSE IF action = "backward" THEN "backward"
            ELSE IF action = "stopped" THEN "stop"
            ELSE IF action \in {"turn_left_normal", "turn_left_sharp",
                                "turn_left_pivot"} THEN "turn_left"
            ELSE IF action \in {"turn_right_normal", "turn_right_sharp",
                                "turn_right_pivot"} THEN "turn_right"
            ELSE "unknown"
    IN [m EXCEPT !.current_action = action,
                 !.target_speed = speed,
                 !.actual_speed = m.current_speed,
                 !.wheel_direction = direction,
                 !.wheel_speed = IF direction = "stop" THEN 0 ELSE speed]

\* runtime_stats['total_commands'] += 1
CountCommand(m) == [m EXCEPT !.total_commands = @ + 1]

\* all_motors_stop(immediate=True)
all_motors_stop_immediate(m) ==
    Done(TRUE,
         CountCommand(update_motor_state([m EXCEPT !.current_speed = 0],
                                         "stopped", 0)))

\* all_motors_stop(): the smooth path ramps current_speed down to 0 and
\* calls all_motors_stop(immediate=True) before the final update and count
all_motors_stop(m) ==
    IF m.smooth_control
    THEN Done(TRUE,
              CountCommand(update_motor_state(all_motors_stop_immediate(m).motor,
                                              "stopped", 0)))
    ELSE all_motors_stop_immediate(m)

\* a drive operation that ignores the lockout
all_motors_drive_mut(m, action, speed) ==
    IF m.smooth_control
    THEN Done(TRUE, [m EXCEPT !.current_speed = speed])
    ELSE Done(TRUE, CountCommand(update_motor_state(m, action, speed)))

\* all_motors_forward / all_motors_backward: with smooth_control the call
\* returns from _smooth_transition, which ends with current_speed = speed
all_motors_drive(m, action, speed) ==
    IF m.emergency_stop_active THEN Done(FALSE, m)
    ELSE IF m.smooth_control
    THEN Done(TRUE, [m EXCEPT !.current_speed = speed])
    ELSE Done(TRUE, CountCommand(update_motor_state(m, action, speed)))

\* turn_left / turn_right
turn(m, side, speed, turn_type) ==
    IF m.emergency_stop_active THEN Done(FALSE, m)
    ELSE Done(TRUE,
              CountCommand(update_motor_state(m,
                  IF side = "left"
                  THEN (IF turn_type = "sharp" THEN "turn_left_sharp"
                        ELSE IF turn_type = "pivot" THEN "turn_left_pivot"
                        ELSE "turn_left_normal")
                  ELSE (IF turn_type = "sharp" THEN "turn_right_sharp"
                        ELSE IF turn_type = "pivot" THEN "turn_right_pivot"
                        ELSE "turn_right_normal"),
                  speed)))

\* MotorController.emergency_stop
motor_emergency_stop(m) ==
    all_motors_stop_immediate([m EXCEPT !.emergency_stop_active = TRUE])

\* MotorController.reset_emergency_stop
reset_emergency_stop(m) == [m EXCEPT !.emergency_stop_active = FALSE]

\* speed = max(self.min_speed, min(self.max_speed, speed)), with
\* command_data.get('speed', self.default_speed)
validated_speed(m, command_data) ==
    Max(m.min_speed,
        Min(m.max_speed, Get(command_data, "speed", m.default_speed)))

\* execute_android_command(command_data)
execute_android_command(m, command_data) ==
    LET action == Get(command_data, "action", "stop")
        speed == validated_speed(m, command_data)
        duration == Get(command_data, "duration", 0)
        turn_type == Get(command_data, "turn_type", "normal")
        r == IF action = "forward" THEN all_motors_drive(m, "forward", speed)
             ELSE IF action = "backward" THEN all_motors_drive(m, "backward", speed)
             ELSE IF action = "left" THEN turn(m, "left", speed, turn_type)
             ELSE IF action = "right" THEN turn(m, "right", speed, turn_type)
             ELSE IF action = "stop" THEN all_motors_stop(m)
             ELSE IF action = "emergency_stop" THEN motor_emergency_stop(m)
             ELSE Done(FALSE, m)
    IN IF r.success /\ duration > 0 /\ action # "stop"
       THEN Done(TRUE, all_motors_stop(r.motor).motor)
       ELSE r

\* execute_android_command when a motor operation may raise: the except
\* branch stops the motors at once and returns False
execute_android_command_try(m, command_data, raises) ==
    IF raises
    THEN Done(FALSE, all_motors_stop_immediate(m).motor)
    ELSE execute_android_command(m, command_data)

\* get_motor_status(): timed_out is time_since_command > command_timeout;
\* the clock is not part of the state, the caller supplies the outcome
get_motor_status(m, timed_out) ==
    IF timed_out /\ ~m.emergency_stop_active /\ m.current_action # "stopped"
    THEN all_motors_stop(m).motor
    ELSE m

\* a setter that clamps min_speed to 0..100 only
set_speed_parameters_mut(m, args) ==
    LET m1 == IF "default" \in DOMAIN args
              THEN [m EXCEPT !.default_speed = Max(0, Min(100, args.default))]
              ELSE m
        m2 == IF "max_speed" \in DOMAIN args
              THEN [m1 EXCEPT !.max_speed =
                        Max(m1.min_speed, Min(100, args.max_speed))]
              ELSE m1
    IN IF "min_speed" \in DOMAIN args
       THEN [m2 EXCEPT !.min_speed = Max(0, Min(100, args.min_speed))]
       ELSE m2

\* set_speed_parameters(default, max_speed, min_speed); args holds the
\* keyword arguments that are not None
set_speed_parameters(m, args) ==
    LET m1 == IF "default" \in DOMAIN args
              THEN [m EXCEPT !.default_speed = Max(0, Min(100, args.default))]
              ELSE m
        m2 == IF "max_speed" \in DOMAIN args
              THEN [m1 EXCEPT !.max_speed =
                        Max(m1.min_speed, Min(100, args.max_speed))]
              ELSE m1
    IN IF "min_speed" \in DOMAIN args
       THEN [m2 EXCEPT !.min_speed =
                 Max(0, Min(m2.max_speed, args.min_speed))]
       ELSE m2

\* enable_smooth_control(enabled)
enable_smooth_control(m, enabled) == [m EXCEPT !.smooth_control = enabled]

\* ------------------------------------------------------------------------
\* Majority vote over a history (dict of counts in insertion order, max())
\* ------------------------------------------------------------------------
\* a window that never evicts
DequeAppend_mut(h, v, maxlen) == Append(h, v)

\* deque(maxlen).append / list.append followed by pop(0) when too long
DequeAppend(h, v, maxlen) ==
    IF Len(h) >= maxlen THEN Append(Tail(h), v) ELSE Append(h, v)

\* action_counts[v]
Occurrences(h, v) == Cardinality({i \in 1..Len(h) : h[i] = v})

\* a vote that returns the last key that attains the maximum
MostCommon_mut(h) ==
    LET best == CHOOSE i \in 1..Len(h) :
                    /\ \A j \in 1..Len(h) :
                           Occurrences(h, h[j]) <= Occurrences(h, h[i])
                    /\ \A j \in (i + 1)..Len(h) : h[j] # h[i]
                    /\ \A j \in (i + 1)..Len(h) :
                           (\A k \in 1..(j - 1) : h[k] # h[j]) =>
                               Occurrences(h, h[j]) < Occurrences(h, h[i])
    IN h[best]

\* max(counts, key=counts.get): keys are in order of first occurrence and
\* max returns the first key that attains the maximum
MostCommon(h) ==
    LET best == CHOOSE i \in 1..Len(h) :
                    /\ \A j \in 1..Len(h) :
                           Occurrences(h, h[j]) <= Occurrences(h, h[i])
                    /\ \A j \in 1..(i - 1) :
                           Occurrences(h, h[j]) < Occurrences(h, h[i])
    IN h[best]

\* ------------------------------------------------------------------------
\* NavigationVisionSystem.get_navigation_direction
\* ------------------------------------------------------------------------
Abs(x) == IF x < 0 THEN -x ELSE x

NoDirectionArgs == [center_x |-> 0, image_center_x |-> 0, threshold |-> 0]

InitDirIdle ==
    /\ direction_args = NoDirectionArgs
    /\ detected_direction = "NONE"

\* the STRAIGHT test with an inclusive bound
IsStraight_mut(offset, threshold) == Abs(offset) <= threshold

\* abs(offset) < threshold
IsStraight(offset, threshold) == Abs(offset) < threshold

\* offset_ratio > 0.3, offset_ratio = abs(offset) / (centre if centre > 0 else 1)
IsSharp(offset, image_center_x) ==
    Abs(offset) * 10 > 3 * (IF image_center_x > 0 THEN image_center_x ELSE 1)

get_navigation_direction(center_x, image_center_x, threshold) ==
    LET offset == center_x - image_center_x
    IN IF IsStraight(offset, threshold)
       THEN "STRAIGHT"
       ELSE IF offset < -threshold
       THEN (IF IsSharp(offset, image_center_x) THEN "SHARP_LEFT" ELSE "LEFT")
       ELSE (IF IsSharp(offset, image_center_x) THEN "SHARP_RIGHT" ELSE "RIGHT")

\* ------------------------------------------------------------------------
\* NavigationAI.make_navigation_decision
\* ------------------------------------------------------------------------
\* rule 1 evaluated against the main loop's 15 cm emergency distance
EmergencyRule_mut(env) ==
    env.obstacle_detected /\ env.obstacle_distance < 15

\* rule 1: obstacle closer than the stop distance
EmergencyRule(env) ==
    env.obstacle_detected /\ env.obstacle_distance < obstacle_stop_distance

\* rule 2 with an inclusive confidence bound
TrafficRule_mut(env) ==
    env.traffic_light = "RED" /\ env.traffic_light_confidence >= 70

\* rule 2: red light with confidence > 0.7
TrafficRule(env) ==
    env.traffic_light = "RED" /\ env.traffic_light_confidence > 70

\* speed of a LEFT / RIGHT turn
TurnSpeed(env) ==
    IF env.speed_limit_detected THEN reduced_speed ELSE default_speed

\* speed on a STRAIGHT lane that ignores the range reading
StraightSpeed_mut(env) ==
    IF env.speed_limit_detected THEN reduced_speed ELSE default_speed

\* speed on a STRAIGHT lane
StraightSpeed(env) ==
    IF env.obstacle_distance < safe_distance
    THEN reduced_speed
    ELSE IF env.speed_limit_detected THEN reduced_speed ELSE default_speed

\* default behaviour after the lane-direction chain
DefaultBehaviour(env) ==
    IF env.obstacle_distance > safe_distance
    THEN [action |-> "MOVE_FORWARD", speed |-> reduced_speed,
          reason |-> "Cautious forward movement"]
    ELSE [action |-> "STOP", speed |-> 0,
          reason |-> "Uncertain environment - safety stop"]

make_navigation_decision(env) ==
    IF EmergencyRule(env)
    THEN [action |-> "EMERGENCY_STOP", speed |-> 0, reason |-> "Obstacle"]
    ELSE IF TrafficRule(env)
    THEN [action |-> "TRAFFIC_STOP", speed |-> 0,
          reason |-> "Red traffic light detected"]
    ELSE IF env.stop_sign_detected
    THEN [action |-> "STOP_SIGN_STOP", speed |-> 0,
          reason |-> "Stop sign detected"]
    ELSE IF env.lane_direction = "LEFT"
    THEN [action |-> "TURN_LEFT", speed |-> TurnSpeed(env),
          reason |-> "Following lane direction"]
    ELSE IF env.lane_direction = "RIGHT"
    THEN [action |-> "TURN_RIGHT", speed |-> TurnSpeed(env),
          reason |-> "Following lane direction"]
    ELSE IF env.lane_direction = "STRAIGHT"
    THEN [action |-> "MOVE_FORWARD", speed |-> StraightSpeed(env),
          reason |-> "Following lane - straight path"]
    ELSE DefaultBehaviour(env)

\* ------------------------------------------------------------------------
\* NavigationVisionSystem: construction and process_navigation_frame
\* ------------------------------------------------------------------------
\* a confidence count / len, kept exact
Ratio(n, d) == [num |-> n, den |-> d]
ZeroRatio == Ratio(0, 1)

\* round(count / len, 2) in hundredths; no count / len with len <= 5 lies
\* halfway between two hundredths
Round2(r) == (200 * r.num + r.den) \div (2 * r.den)

InitVision ==
    /\ frame_skip_counter = 0
    /\ lane_direction_history = <<>>
    /\ current_direction = "STRAIGHT"
    /\ lane_confidence = ZeroRatio
    /\ obstacle_history = <<>>
    /\ obstacle_detected = FALSE
    /\ obstacle_confidence = ZeroRatio
    /\ navigation_data = [lane_direction |-> "STRAIGHT",
                          lane_confidence |-> 0,
                          obstacle_detected |-> FALSE,
                          obstacle_distance_pixels |-> 0,
                          path_clear |-> TRUE,
                          camera_active |-> TRUE]

\* a push that evicts the newest entry instead of the oldest
HistoryPush_mut(h, v) ==
    IF Len(h) + 1 > history_length
    THEN Append(SubSeq(h, 1, Len(h) - 1), v) ELSE Append(h, v)

\* list.append(v); if len > history_length: pop(0)
HistoryPush(h, v) ==
    IF Len(h) + 1 > history_length THEN Tail(Append(h, v)) ELSE Append(h, v)

\* the lane threshold as a strict bound
DirectionConsensus_mut(r) == r.num * 10 > r.den * 6

\* self.lane_confidence >= 0.6
DirectionConsensus(r) == r.num * 10 >= r.den * 6

\* the confidence as a share of the capacity
WindowConfidence_mut(max_count, h) == Ratio(max_count, history_length)

\* max_count / len(self.lane_direction_history)
WindowConfidence(max_count, h) == Ratio(max_count, Len(h))

\* _update_direction_with_confidence on the history h: the new
\* (current_direction, lane_confidence)
update_direction_with_confidence(h, direction, confidence) ==
    IF Len(h) = 0
    THEN [direction |-> direction, confidence |-> confidence]
    ELSE LET most_common_direction == MostCommon(h)
             max_count == Occurrences(h, most_common_direction)
             conf == WindowConfidence(max_count, h)
         IN [direction |-> IF DirectionConsensus(conf)
                           THEN most_common_direction ELSE direction,
             confidence |-> conf]

\* sum(obstacle_history)
CountTrue(h) == Cardinality({i \in 1..Len(h) : h[i]})

\* self.obstacle_confidence > 0.4
ObstacleConsensus(r) == r.num * 10 > r.den * 4

\* what the segmenter finds in one frame: find_navigation_path gives no
\* contour, a contour without centroid, or a contour with centroid column
\* center_x; _detect_path_obstacles gives a pixel distance, 0 for none
PathResults == {"none", "degenerate", "found"}
CentroidSamples == {100, 270, 280, 320, 360, 540}
ObstaclePixelSamples == {0, 200}
Frames == [path : PathResults, center_x : CentroidSamples,
           obstacle_distance : ObstaclePixelSamples]

\* a policy that processes every third call
IsSkipped_mut(counter) == counter % (skip_frames + 1) # 0

\* self.frame_skip_counter % self.skip_frames != 0, after the increment
IsSkipped(counter) == counter % skip_frames # 0

\* process_navigation_frame, a call the frame-skip policy skips
SkipFrame ==
    /\ IsSkipped(frame_skip_counter + 1)
    /\ frame_skip_counter' = frame_skip_counter + 1
    /\ UNCHANGED <<lane_direction_history, current_direction, lane_confidence,
                   obstacle_history, obstacle_detected, obstacle_confidence,
                   navigation_data>>

\* process_navigation_frame, a processed call, with _update_navigation_data
ProcessFrame(frame) ==
    LET found == frame.path = "found"
        direction == IF found
                     THEN get_navigation_direction(frame.center_x,
                                                   ResolutionWidth \div 2,
                                                   DefaultThreshold)
                     ELSE "STRAIGHT"
        obstacle_distance == IF found THEN frame.obstacle_distance ELSE 0
        path_clear == obstacle_distance = 0
        lane_history == HistoryPush(lane_direction_history, direction)
        upd == update_direction_with_confidence(lane_history,
                                                current_direction,
                                                lane_confidence)
        obs_history == HistoryPush(obstacle_history, ~path_clear)
        obs_conf == Ratio(CountTrue(obs_history), Len(obs_history))
        obs_detected == ObstacleConsensus(obs_conf)
    IN /\ ~IsSkipped(frame_skip_counter + 1)
       /\ frame_skip_counter' = frame_skip_counter + 1
       /\ lane_direction_history' = lane_history
       /\ current_direction' = upd.direction
       /\ lane_confidence' = upd.confidence
       /\ obstacle_history' = obs_history
       /\ obstacle_confidence' = obs_conf
       /\ obstacle_detected' = obs_detected
       /\ navigation_data' =
             [lane_direction |-> upd.direction,
              lane_confidence |-> Round2(upd.confidence),
              obstacle_detected |-> obs_detected,
              obstacle_distance_pixels |-> obstacle_distance,
              path_clear |-> path_clear /\ ~obs_detected,
              camera_active |-> TRUE]

\* ------------------------------------------------------------------------
\* NavigationVisionSystem.detect_stop_sign / detect_speed_limit: the
\* detection history and the majority vote that end both methods.
\* current_detection is whether some contour of the frame passed all the
\* geometric tests.
\* ------------------------------------------------------------------------
\* the fields before the first call; __init__ does not assign them
InitSigns ==
    /\ stop_detection_history = <<>>
    /\ stop_detection_confidence = ZeroRatio
    /\ stop_sign_detected = FALSE
    /\ speed_limit_history = <<>>
    /\ speed_limit_confidence = ZeroRatio
    /\ speed_limit_detected = FALSE

\* the sign threshold as an inclusive bound
SignConsensus_mut(r) == r.num * 10 >= r.den * 6

\* confidence > 0.6
SignConsensus(r) == r.num * 10 > r.den * 6

\* history.append(current_detection), pop(0) when too long, confidence =
\* sum(history) / len(history), detected = confidence > 0.6 (else False)
sign_vote(history, current_detection) ==
    LET h == HistoryPush(history, current_detection)
        conf == Ratio(CountTrue(h), Len(h))
    IN [history |-> h, confidence |-> conf, detected |-> SignConsensus(conf)]

detect_stop_sign(current_detection) ==
    LET r == sign_vote(stop_detection_history, current_detection)
    IN /\ stop_detection_history' = r.history
       /\ stop_detection_confidence' = r.confidence
       /\ stop_sign_detected' = r.detected
       /\ UNCHANGED <<speed_limit_history, speed_limit_confidence,
                      speed_limit_detected>>

detect_speed_limit(current_detection) ==
    LET r == sign_vote(speed_limit_history, current_detection)
    IN /\ speed_limit_history' = r.history
       /\ speed_limit_confidence' = r.confidence
       /\ speed_limit_detected' = r.detected
       /\ UNCHANGED <<stop_detection_history, stop_detection_confidence,
                      stop_sign_detected>>

\* ------------------------------------------------------------------------
\* NavigationVisionSystem.detect_traffic_lights and track_lights.
\* A contour is what the function reads of it: cv2.contourArea, the
\* bounding rectangle <<x, y, w, h>>, the number of mask pixels set inside
\* the rectangle (np.sum(mask_region) / 255) and the label of the hue range
\* whose mask it came from.  contours lists them in the order the two loops
\* visit them.  A light is the dict the function appends.
\* ------------------------------------------------------------------------
LightMinArea == 50
LightMaxArea == 5000
LightMaxDistance == 50

InitLights ==
    /\ contours = <<>>
    /\ lights = <<>>
    /\ prev_lights = <<>>
    /\ tracked_lights = <<>>
    /\ light_matches = <<>>

\* min_area < area < max_area
AreaInWindow(area) == LightMinArea < area /\ area < LightMaxArea

\* the aspect test left out
AspectInRange_mut(w, h) == TRUE

\* aspect_ratio = w / h if h > 0 else 1;  0.5 < aspect_ratio < 2.0
AspectInRange(w, h) == IF h > 0 THEN h < 2 * w /\ w < 2 * h ELSE TRUE

\* intensity = np.sum(mask_region) / (255 * w * h) if w * h > 0 else 0
LightIntensity(w, h, lit) == IF w * h > 0 THEN Ratio(lit, w * h) ELSE ZeroRatio

\* intensity > 0.2
BrightEnough(r) == r.num * 10 > r.den * 2

AcceptsContour(c) ==
    /\ AreaInWindow(c.area)
    /\ AspectInRange(c.bbox[3], c.bbox[4])
    /\ BrightEnough(LightIntensity(c.bbox[3], c.bbox[4], c.lit))

LightOf(c) ==
    [bbox |-> c.bbox,
     intensity |-> LightIntensity(c.bbox[3], c.bbox[4], c.lit),
     color |-> c.color]

RECURSIVE detect_traffic_lights(_)
detect_traffic_lights(cs) ==
    IF cs = <<>> THEN <<>>
    ELSE IF AcceptsContour(Head(cs))
         THEN <<LightOf(Head(cs))>> \o detect_traffic_lights(Tail(cs))
         ELSE detect_traffic_lights(Tail(cs))

\* (x + w // 2, y + h // 2)
LightCentre(l) == <<l.bbox[1] + l.bbox[3] \div 2, l.bbox[2] + l.bbox[4] \div 2>>

\* the square of dist = sqrt((px - nx) ** 2 + (py - ny) ** 2)
SquaredDistance(a, b) == (a[1] - b[1]) * (a[1] - b[1]) + (a[2] - b[2]) * (a[2] - b[2])

\* the colour test left out
LightCandidate_mut(prev, new_light, used, i) ==
    /\ i \notin used
    /\ SquaredDistance(LightCentre(prev), LightCentre(new_light))
           < LightMaxDistance * LightMaxDistance

\* i not in used_new, dist < max_distance, prev['color'] == new_light['color']
LightCandidate(prev, new_light, used, i) ==
    /\ i \notin used
    /\ SquaredDistance(LightCentre(prev), LightCentre(new_light))
           < LightMaxDistance * LightMaxDistance
    /\ prev.color = new_light.color

\* the inner loop of track_lights from index i on: best is best_match (0
\* for None) and dist < min_dist holds against the best so far, min_dist
\* being infinite while there is none
RECURSIVE BestMatch(_, _, _, _, _)
BestMatch(prev, new_lights, used, i, best) ==
    IF i > Len(new_lights) THEN best
    ELSE LET d == SquaredDistance(LightCentre(prev), LightCentre(new_lights[i]))
             closer == \/ best = 0
                       \/ d < SquaredDistance(LightCentre(prev),
                                              LightCentre(new_lights[best]))
         IN IF LightCandidate(prev, new_lights[i], used, i) /\ closer
            THEN BestMatch(prev, new_lights, used, i + 1, i)
            ELSE BestMatch(prev, new_lights, used, i + 1, best)

\* the lights of new_lights no previous light took, in their order
RECURSIVE Unmatched(_, _, _)
Unmatched(new_lights, used, i) ==
    IF i > Len(new_lights) THEN <<>>
    ELSE IF i \in used THEN Unmatched(new_lights, used, i + 1)
         ELSE <<new_lights[i]>> \o Unmatched(new_lights, used, i + 1)

\* the outer loop of track_lights from the k-th previous light on
RECURSIVE TrackFrom(_, _, _, _, _, _)
TrackFrom(prevs, new_lights, k, used, tracked, matches) ==
    IF k > Len(prevs)
    THEN [tracked_lights |-> tracked \o Unmatched(new_lights, used, 1),
          new_lights |-> new_lights,
          matches |-> matches]
    ELSE LET best == BestMatch(prevs[k], new_lights, used, 1, 0)
         IN IF best # 0
            THEN TrackFrom(prevs, new_lights, k + 1, used \cup {best},
                           Append(tracked, new_lights[best]),
                           Append(matches, best))
            ELSE TrackFrom(prevs, new_lights, k + 1, used, tracked,
                           Append(matches, 0))

\* if not prev_lights: return new_lights, new_lights
track_lights(prevs, new_lights) ==
    IF prevs = <<>>
    THEN [tracked_lights |-> new_lights, new_lights |-> new_lights,
          matches |-> <<>>]
    ELSE TrackFrom(prevs, new_lights, 1, {}, <<>>, <<>>)

\* ------------------------------------------------------------------------
\* WiFiHandler and BLEHandler (with the bluetooth library present): the two
\* classes buffer and send alike, a handler is the record of the fields
\* connected, data_buffer and max_buffer_size, and sent lists what
\* client_socket.send has transmitted.  A message is what identifies it,
\* its id; a buffered item is the message it wraps.
\* ------------------------------------------------------------------------
WifiMaxBufferSize == 100
BleMaxBufferSize == 50

InitHandler(max_buffer_size) ==
    [connected |-> FALSE, data_buffer |-> <<>>,
     max_buffer_size |-> max_buffer_size, sent |-> <<>>]

\* the result of a send: its return value and the handler's new fields
Attempt(ok, h) == [success |-> ok, handler |-> h]

\* a buffer that evicts only above its capacity
buffer_data_mut(h, data) ==
    [h EXCEPT !.data_buffer =
         Append(IF Len(@) > h.max_buffer_size THEN Tail(@) ELSE @, data)]

\* _buffer_data(data): pop(0) when full, then append
buffer_data(h, data) ==
    [h EXCEPT !.data_buffer =
         Append(IF Len(@) >= h.max_buffer_size THEN Tail(@) ELSE @, data)]

\* send_data / transmit_data; ok is whether client_socket.send returns
\* rather than raises (for BLE: with the bluetooth library present)
send_data(h, data, ok) ==
    IF ~h.connected THEN Attempt(FALSE, buffer_data(h, data))
    ELSE IF ok THEN Attempt(TRUE, [h EXCEPT !.sent = Append(@, data)])
    ELSE Attempt(FALSE, buffer_data([h EXCEPT !.connected = FALSE], data))

\* the for loop of _send_buffered_data: the loop reads, by position i, the
\* list that the failed sends append to and pop from; budget is the number
\* of sends the socket still accepts before it raises, n the number of
\* iterations made.  The loop is followed for MaxFlushIterations
\* iterations; done is false when it needs more.
MaxFlushIterations == 120

\* one iteration, or the statement after the loop
FlushStep(s) ==
    IF s.done THEN s
    ELSE IF s.i > Len(s.handler.data_buffer)
    THEN [s EXCEPT !.handler.data_buffer = s.failed_sends, !.done = TRUE]
    ELSE LET buffered_item == s.handler.data_buffer[s.i]
             r == send_data(s.handler, buffered_item, s.budget > 0)
         IN [handler |-> r.handler,
             i |-> s.i + 1,
             failed_sends |-> IF r.success THEN s.failed_sends
                              ELSE Append(s.failed_sends, buffered_item),
             budget |-> IF r.success THEN s.budget - 1 ELSE s.budget,
             n |-> s.n + 1,
             done |-> FALSE]

\* k steps of the loop
RECURSIVE FlushLoop(_, _)
FlushLoop(s, k) ==
    IF k = 0 THEN s
    ELSE IF k = 1 THEN FlushStep(s)
    ELSE LET half == FlushLoop(s, k \div 2)
         IN IF half.done THEN half ELSE FlushLoop(half, k - (k \div 2))

\* _send_buffered_data()
send_buffered_data(h, budget) ==
    IF ~h.connected \/ h.data_buffer = <<>>
    THEN [handler |-> h, iterations |-> 0, terminated |-> TRUE]
    ELSE LET s == FlushLoop([handler |-> h, i |-> 1, failed_sends |-> <<>>,
                             budget |-> budget, n |-> 0, done |-> FALSE],
                            MaxFlushIterations + 1)
         IN [handler |-> s.handler, iterations |-> s.n,
             terminated |-> s.done]

\* ------------------------------------------------------------------------
\* ProtocolManager
\* ------------------------------------------------------------------------
InitManager ==
    [primary_protocol |-> "wifi", fallback_enabled |-> TRUE,
     message_id_counter |-> 0, sent_messages |-> {}]

InitComm ==
    /\ wifi = InitHandler(WifiMaxBufferSize)
    /\ ble = InitHandler(BleMaxBufferSize)
    /\ manager = InitManager
    /\ last_call = [op |-> "none"]

\* manage_protocols(): the primary protocol follows the connection
manage_protocols(mgr, w, b) ==
    IF ~mgr.fallback_enabled THEN mgr
    ELSE IF mgr.primary_protocol = "wifi" /\ ~w.connected
    THEN IF b.connected THEN [mgr EXCEPT !.primary_protocol = "ble"] ELSE mgr
    ELSE IF mgr.primary_protocol = "ble" /\ ~b.connected
    THEN IF w.connected THEN [mgr EXCEPT !.primary_protocol = "wifi"] ELSE mgr
    ELSE mgr

\* one attempt of send_message over the named protocol on the pair c of
\* handlers; any other name sends nothing
SendOver(c, protocol, message, ok_wifi, ok_ble) ==
    IF protocol = "wifi"
    THEN LET r == send_data(c.wifi, message, ok_wifi)
         IN [success |-> r.success, wifi |-> r.handler, ble |-> c.ble]
    ELSE IF protocol = "ble"
    THEN LET r == send_data(c.ble, message, ok_ble)
         IN [success |-> r.success, wifi |-> c.wifi, ble |-> r.handler]
    ELSE [success |-> FALSE, wifi |-> c.wifi, ble |-> c.ble]

\* sent_messages[message_id] = {..., 'protocol_used': ...}
Track(sent_messages, message_id, protocol_used) ==
    {e \in sent_messages : e.id # message_id}
        \cup {[id |-> message_id, protocol_used |-> protocol_used]}

\* a manager that tracks every message, delivered or not
TrackIfSent_mut(mgr, success, message_id, protocol_used) ==
    [mgr EXCEPT !.sent_messages = Track(@, message_id, protocol_used)]

\* if success: self.sent_messages[message_id] = ...
TrackIfSent(mgr, success, message_id, protocol_used) ==
    IF success
    THEN [mgr EXCEPT !.sent_messages = Track(@, message_id, protocol_used)]
    ELSE mgr

\* send_message(message, protocol): requested is the protocol argument
\* ("none" for None), now is int(time.time())
send_message(mgr, w, b, requested, now, ok_wifi, ok_ble) ==
    LET protocol == IF requested = "none" THEN mgr.primary_protocol
                    ELSE requested
        counted == [mgr EXCEPT !.message_id_counter = @ + 1]
        message_id == <<counted.message_id_counter, now>>
        first == SendOver([wifi |-> w, ble |-> b], protocol, message_id,
                          ok_wifi, ok_ble)
        fallback_protocol == IF protocol = "wifi" THEN "ble" ELSE "wifi"
        falls_back == ~first.success /\ mgr.fallback_enabled
        second == IF falls_back
                  THEN SendOver(first, fallback_protocol, message_id,
                                ok_wifi, ok_ble)
                  ELSE first
        protocol_used == IF falls_back THEN fallback_protocol ELSE protocol
    IN [manager |-> TrackIfSent(counted, second.success, message_id,
                                protocol_used),
        wifi |-> second.wifi, ble |-> second.ble,
        success |-> second.success, message_id |-> message_id,
        protocol |-> protocol]

\* ------------------------------------------------------------------------
\* Specification of the three boolean stabilizers: the two sign detectors
\* and the obstacle flag of process_navigation_frame, each called with one
\* frame at a time, in any order
\* ------------------------------------------------------------------------
SignFrames == {f \in Frames : f.path = "found" /\ f.center_x = 320}

InitSignSpec ==
    /\ sensor_data = NoSensorData
    /\ environment = NoEnvironment
    /\ raw_decision = NoDecision
    /\ decision = NoDecision
    /\ decision_history = <<>>
    /\ previous_actions = <<>>
    /\ current_state = "IDLE"
    /\ cycles = 0
    /\ InitDirIdle
    /\ InitVision
    /\ InitVehicle
    /\ InitSigns
    /\ InitComm
    /\ InitLights

StopSignCall ==
    /\ \E current_detection \in BOOLEAN : detect_stop_sign(current_detection)
    /\ UNCHANGED <<navVars, dirVars, visVars, loopVars, lightVars, commVars>>

SpeedLimitCall ==
    /\ \E current_detection \in BOOLEAN : detect_speed_limit(current_detection)
    /\ UNCHANGED <<navVars, dirVars, visVars, loopVars, lightVars, commVars>>

ObstacleSkip ==
    /\ frame_skip_counter < MaxFrames
    /\ SkipFrame
    /\ UNCHANGED <<navVars, dirVars, loopVars, signVars, lightVars, commVars>>

ObstacleCall ==
    /\ frame_skip_counter < MaxFrames
    /\ \E frame \in SignFrames : ProcessFrame(frame)
    /\ UNCHANGED <<navVars, dirVars, loopVars, signVars, lightVars, commVars>>

NextSigns == StopSignCall \/ SpeedLimitCall \/ ObstacleSkip \/ ObstacleCall

SpecSigns == InitSignSpec /\ [][NextSigns]_vars

Exceeds60(r) == r.num * 10 > r.den * 6

InitVis ==
    /\ sensor_data = NoSensorData
    /\ environment = NoEnvironment
    /\ raw_decision = NoDecision
    /\ decision = NoDecision
    /\ decision_history = <<>>
    /\ previous_actions = <<>>
    /\ current_state = "IDLE"
    /\ cycles = 0
    /\ InitDirIdle
    /\ InitVision
    /\ InitVehicle
    /\ InitSigns
    /\ InitComm
    /\ InitLights

VisSkip ==
    /\ frame_skip_counter < MaxFrames
    /\ SkipFrame
    /\ UNCHANGED <<navVars, dirVars, loopVars, signVars, lightVars, commVars>>

VisProcess ==
    /\ frame_skip_counter < MaxFrames
    /\ \E frame \in Frames : ProcessFrame(frame)
    /\ UNCHANGED <<navVars, dirVars, loopVars, signVars, lightVars, commVars>>

NextVision == VisSkip \/ VisProcess

SpecVision == InitVis /\ [][NextVision]_vars

\* C10: a lane-direction window of 5 entries in which one value holds
\* exactly 3 of them gives confidence 0.6 and makes that value the reported
\* stable direction, whatever the stable direction was before the push.
C10_ThreeOfFiveIsStable ==
    \A v \in LaneDirections :
        (Len(lane_direction_history) = 5
            /\ Occurrences(lane_direction_history, v) = 3) =>
            /\ lane_confidence.num * 10 = lane_confidence.den * 6
            /\ current_direction = v
            /\ navigation_data.lane_direction = v
            /\ navigation_data.lane_confidence = 60

C10_Witness ==
    /\ lane_direction_history = <<"RIGHT", "RIGHT", "LEFT", "LEFT", "LEFT">>
    /\ current_direction = "LEFT"
    /\ lane_confidence = Ratio(3, 5)

\* the count of the most frequent value of a window
MajorityCount(h) == Occurrences(h, MostCommon(h))

\* C12 (as claimed): after every push the reported confidence equals the
\* count of the majority value divided by the fixed capacity 5, also while
\* the window holds fewer than 5 entries.
C12_ConfidenceOverCapacity ==
    Len(lane_direction_history) > 0 =>
        lane_confidence.num * history_length
            = MajorityCount(lane_direction_history) * lane_confidence.den

\* C12 (amended): after every push the reported lane confidence equals the
\* count of the majority value divided by the number of entries the window
\* holds at that moment (which is 5 only once the window is full), and the
\* navigation data carry that ratio rounded to two decimals.
C12_ConfidenceOverWindowLength ==
    Len(lane_direction_history) > 0 =>
        /\ lane_confidence.num * Len(lane_direction_history)
              = MajorityCount(lane_direction_history) * lane_confidence.den
        /\ navigation_data.lane_confidence
              = Round2(Ratio(MajorityCount(lane_direction_history),
                             Len(lane_direction_history)))

\* the first push of a fresh stabilizer reports confidence 1
C12_Witness ==
    /\ Len(lane_direction_history) = 1
    /\ lane_confidence = Ratio(1, 1)
    /\ navigation_data.lane_confidence = 100

\* C16: with skip_frames = 2, process_navigation_frame processes exactly
\* every 2nd call; a skipped call returns the navigation data of the last
\* processed call unchanged and modifies no history buffer, stable
\* direction, confidence or obstacle flag.
C16_EverySecondCallIsProcessed ==
    [][frame_skip_counter' = frame_skip_counter + 1 =>
          IF frame_skip_counter' % 2 = 0
          THEN /\ \E v \in LaneDirections :
                     lane_direction_history'
                         = HistoryPush(lane_direction_history, v)
               /\ \E o \in BOOLEAN :
                     obstacle_history' = HistoryPush(obstacle_history, o)
          ELSE /\ navigation_data' = navigation_data
               /\ lane_direction_history' = lane_direction_history
               /\ obstacle_history' = obstacle_history
               /\ current_direction' = current_direction
               /\ lane_confidence' = lane_confidence
               /\ obstacle_confidence' = obstacle_confidence
               /\ obstacle_detected' = obstacle_detected]_vars

\* the third call is skipped and returns what the second call computed
C16_Witness ==
    /\ frame_skip_counter = 3
    /\ lane_direction_history = <<"LEFT">>
    /\ navigation_data.lane_direction = "LEFT"
    /\ navigation_data.lane_confidence = 100
    /\ obstacle_history = <<TRUE>>
    /\ navigation_data.obstacle_detected

\* C15 (as claimed): while the lane-direction history is empty (before the
\* first processed frame, the skipped first call included) the reported
\* lane direction is "no stable signal" and not a concrete class such as
\* STRAIGHT.
C15_EmptyBufferReportsNoSignal ==
    [][Len(lane_direction_history') = 0 =>
          /\ navigation_data'.lane_direction = "UNKNOWN"
          /\ current_direction' = "UNKNOWN"]_vars

\* ------------------------------------------------------------------------
\* Specification of the rule evaluation alone: one environment, one call
\* ------------------------------------------------------------------------
InitDecide ==
    /\ environment \in Environments
    /\ sensor_data = NoSensorData
    /\ raw_decision = NoDecision
    /\ decision = NoDecision
    /\ decision_history = <<>>
    /\ previous_actions = <<>>
    /\ current_state = "IDLE"
    /\ cycles = 0
    /\ InitDirIdle
    /\ InitVision
    /\ InitVehicle
    /\ InitSigns
    /\ InitComm
    /\ InitLights

Decide ==
    /\ raw_decision = NoDecision
    /\ raw_decision' = make_navigation_decision(environment)
    /\ UNCHANGED <<sensor_data, environment, decision, decision_history,
                   previous_actions, current_state, cycles, dirVars, visVars,
                   loopVars, signVars, lightVars, commVars>>

NextDecide == Decide

SpecDecide == InitDecide /\ [][NextDecide]_vars

Decided == raw_decision # NoDecision

\* C1: whenever obstacle_detected holds and obstacle_distance < 20, the raw
\* rule evaluation yields EMERGENCY_STOP with speed 0, whatever the traffic
\* light, its confidence, the sign flags and the lane direction are.
C1_EmergencyFirst ==
    (Decided /\ environment.obstacle_detected
             /\ environment.obstacle_distance < obstacle_stop_distance)
        => (raw_decision.action = "EMERGENCY_STOP" /\ raw_decision.speed = 0)

C1_Witness ==
    /\ Decided
    /\ environment.obstacle_detected
    /\ environment.obstacle_distance = 10
    /\ environment.traffic_light = "RED"
    /\ environment.traffic_light_confidence = 90
    /\ raw_decision.action = "EMERGENCY_STOP"

\* ------------------------------------------------------------------------
\* SensorManager.read_sensor_data
\* ------------------------------------------------------------------------
\* get_distance returns the echo distance, or 400 on either timeout
read_sensor_data(distance) ==
    [distance |-> distance,
     obstacle_detected |-> distance < obstacle_threshold,
     obstacle_threshold |-> obstacle_threshold]

\* ------------------------------------------------------------------------
\* NavigationAI.analyze_environment
\* ------------------------------------------------------------------------
\* an analysis that takes the stop sign from the obstacle flag of the
\* vision record
analyze_environment_mut(vision_data, sensor) ==
    [lane_direction |-> Get(vision_data, "lane_direction", "UNKNOWN"),
     traffic_light |-> Get(vision_data, "traffic_light_status", "UNKNOWN"),
     traffic_light_confidence |-> Get(vision_data, "traffic_light_confidence", 0),
     speed_limit_detected |-> Get(vision_data, "speed_limit_detected", FALSE),
     stop_sign_detected |-> Get(vision_data, "obstacle_detected", FALSE),
     obstacle_distance |-> Get(sensor, "distance", TimeoutDistance),
     obstacle_detected |-> Get(sensor, "obstacle_detected", FALSE)]

analyze_environment(vision_data, sensor) ==
    [lane_direction |-> Get(vision_data, "lane_direction", "UNKNOWN"),
     traffic_light |-> Get(vision_data, "traffic_light_status", "UNKNOWN"),
     traffic_light_confidence |-> Get(vision_data, "traffic_light_confidence", 0),
     speed_limit_detected |-> Get(vision_data, "speed_limit_detected", FALSE),
     stop_sign_detected |-> Get(vision_data, "stop_sign_detected", FALSE),
     obstacle_distance |-> Get(sensor, "distance", TimeoutDistance),
     obstacle_detected |-> Get(sensor, "obstacle_detected", FALSE)]

\* the filter threshold as a strict bound
MeetsConsensus_mut(count, len) == count * 10 > len * 6

\* most_common_count >= len(decision_history) * 0.6
MeetsConsensus(count, len) == count * 10 >= len * 6

\* ------------------------------------------------------------------------
\* NavigationAI.apply_temporal_filtering
\* ------------------------------------------------------------------------
\* a filter that never reaches consensus
apply_temporal_filtering_mut(d, history) ==
    [action |-> d.action, speed |-> d.speed, reason |-> d.reason,
     filtered |-> FALSE]

apply_temporal_filtering(d, history) ==
    LET most_common_action == MostCommon(history)
        most_common_count == Occurrences(history, most_common_action)
    IN IF MeetsConsensus(most_common_count, Len(history))
       THEN [action |-> most_common_action, speed |-> d.speed,
             reason |-> d.reason, filtered |-> TRUE]
       ELSE [action |-> d.action, speed |-> d.speed,
             reason |-> d.reason, filtered |-> FALSE]

\* ------------------------------------------------------------------------
\* NavigationAI.process_navigation
\* ------------------------------------------------------------------------
process_navigation(vision_data, sensor) ==
    LET env == analyze_environment(vision_data, sensor)
        d == make_navigation_decision(env)
        history == DequeAppend(decision_history, d.action, DecisionHistoryMaxlen)
        filtered_decision == apply_temporal_filtering(d, history)
    IN /\ environment' = env
       /\ raw_decision' = d
       /\ decision_history' = history
       /\ decision' = filtered_decision
       /\ current_state' = filtered_decision.action
       /\ previous_actions' = DequeAppend(previous_actions,
                                          filtered_decision.action,
                                          PreviousActionsMaxlen)

\* ------------------------------------------------------------------------
\* Specification of the decision engine: a fresh NavigationAI driven by a
\* caller that passes one vision record and one sensor record per cycle
\* ------------------------------------------------------------------------
EmptyDict == [k \in {} |-> 0]

NavLaneSamples == {"STRAIGHT", "LEFT", "SHARP_LEFT"}
NavDistances == {19, 25, TimeoutDistance}

VisionDataSamples ==
    {[lane_direction |-> l] : l \in NavLaneSamples}
    \cup {[lane_direction |-> "STRAIGHT", traffic_light_status |-> "RED",
            traffic_light_confidence |-> 90],
           [lane_direction |-> "STRAIGHT", stop_sign_detected |-> TRUE],
           EmptyDict}

InitNav ==
    /\ sensor_data = NoSensorData
    /\ environment = NoEnvironment
    /\ raw_decision = NoDecision
    /\ decision = NoDecision
    /\ decision_history = <<>>
    /\ previous_actions = <<>>
    /\ current_state = "IDLE"
    /\ cycles = 0
    /\ InitDirIdle
    /\ InitVision
    /\ InitVehicle
    /\ InitSigns
    /\ InitComm
    /\ InitLights

NavCycle ==
    /\ cycles < MaxCycles
    /\ \E vision_data \in VisionDataSamples, distance \in NavDistances :
          /\ sensor_data' = read_sensor_data(distance)
          /\ process_navigation(vision_data, sensor_data')
    /\ cycles' = cycles + 1
    /\ UNCHANGED <<dirVars, visVars, loopVars, signVars, lightVars, commVars>>

NextNav == NavCycle

SpecNav == InitNav /\ [][NextNav]_vars

\* ------------------------------------------------------------------------
\* Specification of the perception-decision chain of SmartVehicle._main_loop
\* in autonomous mode: every iteration passes one frame to
\* process_navigation_frame and the navigation data it returns, with the
\* range reading, to process_navigation
\* ------------------------------------------------------------------------
MaxIterations == 14

PipelineFrames ==
    {f \in Frames : /\ f.path = "found"
                    /\ f.center_x \in {270, 320, 360}
                    /\ f.obstacle_distance > 0 => f.center_x = 320}

PipelineDistances == {25, TimeoutDistance}

InitPipeline ==
    /\ sensor_data = NoSensorData
    /\ environment = NoEnvironment
    /\ raw_decision = NoDecision
    /\ decision = NoDecision
    /\ decision_history = <<>>
    /\ previous_actions = <<>>
    /\ current_state = "IDLE"
    /\ cycles = 0
    /\ InitDirIdle
    /\ InitVision
    /\ InitVehicle
    /\ InitSigns
    /\ InitComm
    /\ InitLights

\* an iteration whose frame the frame-skip policy skips
ChainSkipped(distances) ==
    /\ SkipFrame
    /\ \E distance \in distances :
          /\ sensor_data' = read_sensor_data(distance)
          /\ process_navigation(navigation_data', sensor_data')
    /\ cycles' = cycles + 1
    /\ UNCHANGED <<dirVars, loopVars, signVars, lightVars, commVars>>

\* an iteration whose frame is processed
ChainProcessed(frames, distances) ==
    /\ \E frame \in frames : ProcessFrame(frame)
    /\ \E distance \in distances :
          /\ sensor_data' = read_sensor_data(distance)
          /\ process_navigation(navigation_data', sensor_data')
    /\ cycles' = cycles + 1
    /\ UNCHANGED <<dirVars, loopVars, signVars, lightVars, commVars>>

PipelineSkipped ==
    /\ frame_skip_counter < MaxIterations
    /\ ChainSkipped(PipelineDistances)

PipelineProcessed ==
    /\ frame_skip_counter < MaxIterations
    /\ ChainProcessed(PipelineFrames, PipelineDistances)

NextPipeline == PipelineSkipped \/ PipelineProcessed

SpecPipeline == InitPipeline /\ [][NextPipeline]_vars

\* a window at capacity that holds only the value v
FullOf(h, v, capacity) == Len(h) = capacity /\ \A i \in 1..Len(h) : h[i] = v

\* C13: once a stabilizer (lane direction, action filter) has been fed the
\* same value for at least capacity consecutive pushes, whatever the window
\* held before, the confidence is 1.0 and the stable value is that input,
\* and a further push of the same value changes neither.
C13_SameValueSaturates ==
    [][/\ \A v \in LaneDirections :
             /\ FullOf(lane_direction_history', v, history_length) =>
                   /\ lane_confidence'.num = lane_confidence'.den
                   /\ current_direction' = v
                   /\ navigation_data'.lane_direction = v
                   /\ navigation_data'.lane_confidence = 100
             /\ (FullOf(lane_direction_history, v, history_length)
                   /\ FullOf(lane_direction_history', v, history_length)) =>
                   /\ current_direction' = current_direction
                   /\ lane_confidence' = lane_confidence
       /\ \A a \in {decision_history'[i] : i \in 1..Len(decision_history')} :
             /\ FullOf(decision_history', a, DecisionHistoryMaxlen) =>
                   /\ decision'.action = a
                   /\ decision'.filtered
             /\ (FullOf(decision_history, a, DecisionHistoryMaxlen)
                   /\ FullOf(decision_history', a, DecisionHistoryMaxlen)) =>
                   /\ decision'.action = decision.action
                   /\ decision'.filtered = decision.filtered]_vars

\* five LEFT frames and five TURN_LEFT decisions after a window that held
\* other values, and at least one further push of the same value
C13_Witness ==
    /\ FullOf(lane_direction_history, "LEFT", history_length)
    /\ current_direction = "LEFT"
    /\ lane_confidence = Ratio(5, 5)
    /\ FullOf(decision_history, "TURN_LEFT", DecisionHistoryMaxlen)
    /\ decision.action = "TURN_LEFT"
    /\ \E i \in 1..Len(previous_actions) : previous_actions[i] = "MOVE_FORWARD"
    /\ cycles > 2 * history_length + 2

ValuesOf(h) == {h[i] : i \in 1..Len(h)}

FirstIndex(h, v) == CHOOSE i \in 1..Len(h) : h[i] = v /\ \A j \in 1..(i - 1) : h[j] # v

\* the vote over h returns a value of maximal count, and of those the one
\* that entered the window first
FirstSeenWins(h) ==
    LET v == MostCommon(h)
    IN \A u \in ValuesOf(h) :
           /\ Occurrences(h, u) <= Occurrences(h, v)
           /\ (u # v /\ Occurrences(h, u) = Occurrences(h, v)) =>
                  FirstIndex(h, v) < FirstIndex(h, u)

UniqueMaximum(h, v) ==
    /\ v \in ValuesOf(h)
    /\ \A u \in ValuesOf(h) \ {v} : Occurrences(h, u) < Occurrences(h, v)

TiedMaximum(h) ==
    \E u, v \in ValuesOf(h) :
        /\ u # v
        /\ Occurrences(h, u) = Occurrences(h, v)
        /\ \A w \in ValuesOf(h) : Occurrences(h, w) <= Occurrences(h, v)

\* C26: the vote over either window returns, of the values that share the
\* maximum count, the one whose first occurrence in the window is oldest;
\* and whenever the lane vote reaches 60% or the action filter reports
\* filtered, the reported value is the only one with the maximum count.
C26_TieBreakNeverDecides ==
    /\ lane_direction_history # <<>> =>
           /\ FirstSeenWins(lane_direction_history)
           /\ DirectionConsensus(lane_confidence) =>
                  UniqueMaximum(lane_direction_history, current_direction)
    /\ decision_history # <<>> =>
           /\ FirstSeenWins(decision_history)
           /\ decision.filtered =>
                  UniqueMaximum(decision_history, decision.action)

\* C34: in every cycle of the chain the environment built from the vision
\* system's navigation_data has traffic_light UNKNOWN, confidence 0 and
\* stop_sign_detected false, and the raw decision is neither TRAFFIC_STOP
\* nor STOP_SIGN_STOP.
C34_NoTrafficOrSignStop ==
    cycles > 0 =>
        /\ environment.traffic_light = "UNKNOWN"
        /\ environment.traffic_light_confidence = 0
        /\ ~environment.stop_sign_detected
        /\ raw_decision.action \notin {"TRAFFIC_STOP", "STOP_SIGN_STOP"}

\* a cycle in which the vision system reports an obstacle and a left lane
\* and the raw decision follows the lane
C34_Witness ==
    /\ cycles > 2
    /\ navigation_data.obstacle_detected
    /\ environment.lane_direction = "LEFT"
    /\ raw_decision.action = "TURN_LEFT"

\* a lane window whose maximum is shared, below the threshold, while the
\* action filter, over a window of three or more, reports a filtered action
C26_Witness ==
    /\ TiedMaximum(lane_direction_history)
    /\ ~DirectionConsensus(lane_confidence)
    /\ Len(decision_history) >= 3
    /\ Cardinality(ValuesOf(decision_history)) >= 2
    /\ decision.filtered

\* ------------------------------------------------------------------------
\* Specification of the same chain when the segmenter finds no path in any
\* frame: find_navigation_path returns no contour, or a contour whose
\* moments give no centroid
\* ------------------------------------------------------------------------
NoPathFrames ==
    {f \in Frames : /\ f.path # "found"
                    /\ f.center_x = 320
                    /\ f.obstacle_distance = 0}

NoPathDistances == {19, 25, TimeoutDistance}

NoPathSkipped ==
    /\ frame_skip_counter < MaxIterations
    /\ ChainSkipped(NoPathDistances)

NoPathProcessed ==
    /\ frame_skip_counter < MaxIterations
    /\ ChainProcessed(NoPathFrames, NoPathDistances)

NextNoPath == NoPathSkipped \/ NoPathProcessed

SpecNoPath == InitPipeline /\ [][NextNoPath]_vars

\* C18 (as claimed): a processed cycle in which no path contour is found
\* (or its centroid is null) records an explicit no-detection observation,
\* so that once such cycles dominate the window the reported
\* lane_direction is UNKNOWN and the decision does not come from the
\* STRAIGHT rule.
C18_NoPathIsUnknown ==
    [][(/\ frame_skip_counter' = frame_skip_counter + 1
        /\ frame_skip_counter' % 2 = 0) =>
          /\ lane_direction_history'[Len(lane_direction_history')] = "UNKNOWN"
          /\ navigation_data'.lane_direction = "UNKNOWN"
          /\ environment'.lane_direction = "UNKNOWN"
          /\ raw_decision'.reason # "Following lane - straight path"]_vars

\* ------------------------------------------------------------------------
\* Specification of all six history buffers: the chain above, and the two
\* sign detectors called on a vision system whose loop has not started.
\* The detectors share no field with the loop, so the runs that call them
\* are kept apart from the runs of the loop.
\* ------------------------------------------------------------------------
BufferSkipped ==
    /\ stop_detection_history = <<>> /\ speed_limit_history = <<>>
    /\ PipelineSkipped

BufferProcessed ==
    /\ stop_detection_history = <<>> /\ speed_limit_history = <<>>
    /\ PipelineProcessed

BufferStopSign ==
    /\ cycles = 0 /\ speed_limit_history = <<>>
    /\ StopSignCall

BufferSpeedLimit ==
    /\ cycles = 0 /\ stop_detection_history = <<>>
    /\ SpeedLimitCall

NextBuffers ==
    BufferSkipped \/ BufferProcessed \/ BufferStopSign \/ BufferSpeedLimit

SpecBuffers == InitPipeline /\ [][NextBuffers]_vars

\* hn is h, or h after one push onto a buffer of the given capacity: below
\* capacity the old entries stay in place, at capacity the oldest is gone
\* and the others keep their order
FifoStep(h, hn, capacity) ==
    /\ Len(hn) <= capacity
    /\ \/ hn = h
       \/ /\ Len(h) < capacity
          /\ Len(hn) = Len(h) + 1
          /\ SubSeq(hn, 1, Len(h)) = h
       \/ /\ Len(h) = capacity
          /\ Len(hn) = capacity
          /\ SubSeq(hn, 1, capacity - 1) = SubSeq(h, 2, capacity)

\* C14: every history buffer (lane_direction_history, obstacle_history,
\* the stop-sign and speed-limit detection histories and decision_history
\* with capacity 5, previous_actions with capacity 10) never holds more
\* entries than its capacity, and a push onto a full buffer removes exactly
\* the oldest entry and keeps the order of the others.
C14_BuffersAreBoundedFifo ==
    [][/\ FifoStep(lane_direction_history, lane_direction_history',
                   history_length)
       /\ FifoStep(obstacle_history, obstacle_history', history_length)
       /\ FifoStep(stop_detection_history, stop_detection_history',
                   history_length)
       /\ FifoStep(speed_limit_history, speed_limit_history', history_length)
       /\ FifoStep(decision_history, decision_history', DecisionHistoryMaxlen)
       /\ FifoStep(previous_actions, previous_actions',
                   PreviousActionsMaxlen)]_vars

\* every buffer of the loop is full of mixed values and has overflowed
C14_Witness ==
    /\ cycles > PreviousActionsMaxlen
    /\ Len(previous_actions) = PreviousActionsMaxlen
    /\ previous_actions[1] # previous_actions[PreviousActionsMaxlen]
    /\ Len(decision_history) = DecisionHistoryMaxlen
    /\ decision_history[1] # decision_history[DecisionHistoryMaxlen]
    /\ Len(lane_direction_history) = history_length
    /\ lane_direction_history[1] # lane_direction_history[history_length]
    /\ Len(obstacle_history) = history_length
    /\ obstacle_history[1] # obstacle_history[history_length]

\* C2 (as claimed): in every cycle of process_navigation in which
\* obstacle_detected holds and obstacle_distance < 20, the decision returned
\* after the action filter is EMERGENCY_STOP with speed 0, whatever the
\* earlier cycles left in the action history.
C2_EmergencyReturned ==
    (cycles > 0 /\ environment.obstacle_detected
                /\ environment.obstacle_distance < obstacle_stop_distance)
        => (decision.action = "EMERGENCY_STOP" /\ decision.speed = 0)

\* C3 (as claimed): in every cycle whose range reading is exactly 400 the
\* sensor record has obstacle_detected false and the returned decision is
\* not EMERGENCY_STOP, whatever the earlier cycles returned.
C3_SentinelNeverEmergency ==
    (cycles > 0 /\ sensor_data.distance = TimeoutDistance)
        => (~sensor_data.obstacle_detected
            /\ decision.action # "EMERGENCY_STOP")

MaxResponseCycles == 8

ResponseVisionSamples == {[lane_direction |-> l] : l \in {"STRAIGHT", "LEFT"}}
ResponseDistances == {19, 25}

ResponseCycle ==
    /\ cycles < MaxResponseCycles
    /\ \E vision_data \in ResponseVisionSamples, distance \in ResponseDistances :
          /\ sensor_data' = read_sensor_data(distance)
          /\ process_navigation(vision_data, sensor_data')
    /\ cycles' = cycles + 1
    /\ UNCHANGED <<dirVars, visVars, loopVars, signVars, lightVars, commVars>>

NextResponse == ResponseCycle

SpecResponse == InitNav /\ [][NextResponse]_vars

\* the raw actions of the last n cycles are all a
LastRawActions(n, a) ==
    /\ Len(decision_history) >= n
    /\ \A i \in (Len(decision_history) - n + 1)..Len(decision_history) :
           decision_history[i] = a

\* C28: rule 1 fires in a cycle exactly when the cycle's raw action is
\* EMERGENCY_STOP, and when it has fired in the last 3 cycles the decision
\* returned in the last of them has action EMERGENCY_STOP, whatever the
\* action history held before those cycles.
C28_ThreeEmergenciesRespond ==
    cycles > 0 =>
        /\ (environment.obstacle_detected
                /\ environment.obstacle_distance < obstacle_stop_distance)
               <=> raw_decision.action = "EMERGENCY_STOP"
        /\ raw_decision.action = decision_history[Len(decision_history)]
        /\ LastRawActions(3, "EMERGENCY_STOP") =>
               decision.action = "EMERGENCY_STOP"

\* five cycles without an obstacle fill the action history before the
\* obstacle comes close for three cycles, and in the first of the three the
\* filter still returned the older majority
C28_Witness ==
    /\ cycles = MaxResponseCycles
    /\ decision_history = <<"TURN_LEFT", "MOVE_FORWARD", "EMERGENCY_STOP",
                            "EMERGENCY_STOP", "EMERGENCY_STOP">>
    /\ previous_actions[Len(previous_actions) - 2] # "EMERGENCY_STOP"
    /\ decision.action = "EMERGENCY_STOP"
    /\ decision.filtered

\* C19: the filtered flag of a returned decision is true exactly when the
\* most frequent action of the action history, after the cycle's raw action
\* was pushed, holds at least 60% of it; when filtered is false the returned
\* action is the raw action, and when it is true the returned action is
\* that most frequent action.
C19_FilteredIffConsensus ==
    cycles > 0 =>
        /\ decision_history[Len(decision_history)] = raw_decision.action
        /\ decision.filtered <=>
              (MajorityCount(decision_history) * 10
                  >= Len(decision_history) * 6)
        /\ decision.filtered => decision.action = MostCommon(decision_history)
        /\ ~decision.filtered => decision.action = raw_decision.action

\* three of five entries agree and replace a different raw action
C19_Witness ==
    /\ Len(decision_history) = DecisionHistoryMaxlen
    /\ MajorityCount(decision_history) = 3
    /\ decision.filtered
    /\ decision.action # raw_decision.action

\* ------------------------------------------------------------------------
\* Specification of the direction classifier alone: one call on a centroid
\* column of the frame, a frame centre and a threshold
\* ------------------------------------------------------------------------
CentreSamples == {0, 100, ResolutionWidth \div 2}
ThresholdSamples == {1, DefaultThreshold, 100}

InitDirection ==
    /\ sensor_data = NoSensorData
    /\ environment = NoEnvironment
    /\ raw_decision = NoDecision
    /\ decision = NoDecision
    /\ decision_history = <<>>
    /\ previous_actions = <<>>
    /\ current_state = "IDLE"
    /\ cycles = 0
    /\ direction_args \in [center_x : 0..ResolutionWidth,
                            image_center_x : CentreSamples,
                            threshold : ThresholdSamples]
    /\ detected_direction = "NONE"
    /\ InitVision
    /\ InitVehicle
    /\ InitSigns
    /\ InitComm
    /\ InitLights

Classify ==
    /\ detected_direction = "NONE"
    /\ detected_direction' =
          get_navigation_direction(direction_args.center_x,
                                   direction_args.image_center_x,
                                   direction_args.threshold)
    /\ UNCHANGED <<navVars, direction_args, visVars, loopVars, signVars, lightVars, commVars>>

NextDirection == Classify

SpecDirection == InitDirection /\ [][NextDirection]_vars

Classified == detected_direction # "NONE"
ArgOffset == direction_args.center_x - direction_args.image_center_x

\* C8 (as claimed): whenever |cx - centre| >= threshold, the result is LEFT
\* or SHARP_LEFT for a negative offset and RIGHT or SHARP_RIGHT for a
\* positive one (also at offset = -threshold), and it is the SHARP variant
\* exactly when |offset| / centre > 0.3.
C8_SignSelectsSide ==
    (Classified /\ Abs(ArgOffset) >= direction_args.threshold
                /\ direction_args.image_center_x > 0) =>
        /\ ArgOffset < 0 => detected_direction \in {"LEFT", "SHARP_LEFT"}
        /\ ArgOffset > 0 => detected_direction \in {"RIGHT", "SHARP_RIGHT"}
        /\ (detected_direction \in {"SHARP_LEFT", "SHARP_RIGHT"})
              <=> (Abs(ArgOffset) * 10 > 3 * direction_args.image_center_x)

\* C9: the result is STRAIGHT exactly when |cx - centre| < threshold; an
\* offset equal to the threshold is never STRAIGHT (centre 320, threshold
\* 40: cx = 360 is not STRAIGHT, cx = 359 is).
C9_StraightExactlyInside ==
    Classified =>
        /\ (detected_direction = "STRAIGHT")
              <=> (Abs(ArgOffset) < direction_args.threshold)
        /\ (direction_args = [center_x |-> 360, image_center_x |-> 320,
                              threshold |-> 40])
              => detected_direction # "STRAIGHT"
        /\ (direction_args = [center_x |-> 359, image_center_x |-> 320,
                              threshold |-> 40])
              => detected_direction = "STRAIGHT"

C9_Witness ==
    /\ Classified
    /\ direction_args = [center_x |-> 360, image_center_x |-> 320,
                         threshold |-> 40]
    /\ detected_direction = "RIGHT"

\* ------------------------------------------------------------------------
\* SmartVehicle: dispatch of a decision and the handlers of the main loop.
\* The vehicle's part of the state that several steps of one iteration
\* rewrite is threaded through them as a record.
\* ------------------------------------------------------------------------
VehicleState(am, mo, es, m, cmds) ==
    [auto_mode |-> am, manual_override |-> mo, emergency_stop |-> es,
     motor |-> m, commands |-> cmds, log |-> <<>>, received |-> "none"]

\* the action tags NavigationAI can return (MOVE_FORWARD ... STOP_SIGN_STOP),
\* the two SHARP tags of the dispatch table, and two tags the table does
\* not know
ActionTags ==
    {"MOVE_FORWARD", "TURN_LEFT", "TURN_RIGHT", "SHARP_LEFT", "SHARP_RIGHT",
     "STOP", "EMERGENCY_STOP", "TRAFFIC_STOP", "STOP_SIGN_STOP",
     "REVERSE", "NO_SHARP_TURN"}

\* the characters of a tag, for Python's substring test
Spelling(name) ==
    CASE name = "MOVE_FORWARD" ->
           <<"M", "O", "V", "E", "_", "F", "O", "R", "W", "A", "R", "D">>
      [] name = "TURN_LEFT" ->
           <<"T", "U", "R", "N", "_", "L", "E", "F", "T">>
      [] name = "TURN_RIGHT" ->
           <<"T", "U", "R", "N", "_", "R", "I", "G", "H", "T">>
      [] name = "SHARP_LEFT" ->
           <<"S", "H", "A", "R", "P", "_", "L", "E", "F", "T">>
      [] name = "SHARP_RIGHT" ->
           <<"S", "H", "A", "R", "P", "_", "R", "I", "G", "H", "T">>
      [] name = "STOP" ->
           <<"S", "T", "O", "P">>
      [] name = "EMERGENCY_STOP" ->
           <<"E", "M", "E", "R", "G", "E", "N", "C", "Y", "_", "S", "T",
             "O", "P">>
      [] name = "TRAFFIC_STOP" ->
           <<"T", "R", "A", "F", "F", "I", "C", "_", "S", "T", "O", "P">>
      [] name = "STOP_SIGN_STOP" ->
           <<"S", "T", "O", "P", "_", "S", "I", "G", "N", "_", "S", "T",
             "O", "P">>
      [] name = "REVERSE" ->
           <<"R", "E", "V", "E", "R", "S", "E">>
      [] name = "NO_SHARP_TURN" ->
           <<"N", "O", "_", "S", "H", "A", "R", "P", "_", "T", "U", "R",
             "N">>

\* sub in seq
Contains(seq, sub) ==
    \E i \in 1..(Len(seq) - Len(sub) + 1) :
        SubSeq(seq, i, i + Len(sub) - 1) = sub

\* seq.startswith(sub)
StartsWith(seq, sub) ==
    Len(seq) >= Len(sub) /\ SubSeq(seq, 1, Len(sub)) = sub

\* a table whose default is forward
map_navigation_to_motor_action_mut(nav_action) ==
    IF nav_action = "MOVE_FORWARD" THEN "forward"
    ELSE IF nav_action = "TURN_LEFT" THEN "left"
    ELSE IF nav_action = "TURN_RIGHT" THEN "right"
    ELSE IF nav_action = "SHARP_LEFT" THEN "left"
    ELSE IF nav_action = "SHARP_RIGHT" THEN "right"
    ELSE IF nav_action = "STOP" THEN "stop"
    ELSE IF nav_action = "EMERGENCY_STOP" THEN "emergency_stop"
    ELSE "forward"

\* _map_navigation_to_motor_action: action_map.get(nav_action, 'stop')
map_navigation_to_motor_action(nav_action) ==
    IF nav_action = "MOVE_FORWARD" THEN "forward"
    ELSE IF nav_action = "TURN_LEFT" THEN "left"
    ELSE IF nav_action = "TURN_RIGHT" THEN "right"
    ELSE IF nav_action = "SHARP_LEFT" THEN "left"
    ELSE IF nav_action = "SHARP_RIGHT" THEN "right"
    ELSE IF nav_action = "STOP" THEN "stop"
    ELSE IF nav_action = "EMERGENCY_STOP" THEN "emergency_stop"
    ELSE "stop"

\* _determine_turn_type: 'SHARP' in nav_action
determine_turn_type(nav_action) ==
    IF Contains(Spelling(nav_action), <<"S", "H", "A", "R", "P">>)
    THEN "sharp" ELSE "normal"

\* a dispatch that reports no failure
execute_navigation_decision_mut(v, d, raises) ==
    IF v.emergency_stop THEN v
    ELSE LET command_data ==
                 [action |-> map_navigation_to_motor_action(d.action),
                  speed |-> d.speed,
                  source |-> "autonomous",
                  turn_type |-> determine_turn_type(d.action)]
             r == execute_android_command_try(v.motor, command_data, raises)
         IN [v EXCEPT !.motor = r.motor,
                      !.commands = Append(v.commands, command_data)]

\* _execute_navigation_decision(decision); raises is whether a motor
\* operation raises inside execute_android_command
execute_navigation_decision(v, d, raises) ==
    IF v.emergency_stop THEN v
    ELSE LET command_data ==
                 [action |-> map_navigation_to_motor_action(d.action),
                  speed |-> d.speed,
                  source |-> "autonomous",
                  turn_type |-> determine_turn_type(d.action)]
             r == execute_android_command_try(v.motor, command_data, raises)
         IN [v EXCEPT !.motor = r.motor,
                      !.commands = Append(v.commands, command_data),
                      !.log = IF r.success THEN @
                              ELSE Append(@, "Failed to execute navigation decision")]

\* _send_telemetry_data: fails is whether building or sending the
\* telemetry package raises
send_telemetry_data(v, fails) ==
    IF fails
    THEN [v EXCEPT !.log = Append(@, "Failed to send telemetry data")]
    ELSE v

\* _check_emergency_conditions(sensor_data); temp_critical is
\* performance_data['temperature'] > 75
check_emergency_conditions(sensor, temp_critical) ==
    (sensor.obstacle_detected /\ sensor.distance < EmergencyDistance)
        \/ temp_critical

\* _handle_emergency_stop
handle_emergency_stop(v) ==
    IF ~v.emergency_stop
    THEN [v EXCEPT !.emergency_stop = TRUE,
                   !.motor = all_motors_stop(v.motor).motor]
    ELSE v

\* manual control that does not look at the emergency flag
handle_manual_control_mut(v, payload) ==
    IF ~v.manual_override THEN v
    ELSE LET command_data ==
                 [action |-> Get(payload, "action", "stop"),
                  speed |-> Get(payload, "speed", 50),
                  duration |-> Get(payload, "duration", 500),
                  turn_type |-> Get(payload, "turn_type", "normal"),
                  source |-> "manual"]
             r == execute_android_command(v.motor, command_data)
         IN [v EXCEPT !.motor = r.motor,
                      !.commands = Append(v.commands, command_data)]

\* _handle_manual_control(payload)
handle_manual_control(v, payload) ==
    IF ~v.manual_override \/ v.emergency_stop THEN v
    ELSE LET command_data ==
                 [action |-> Get(payload, "action", "stop"),
                  speed |-> Get(payload, "speed", 50),
                  duration |-> Get(payload, "duration", 500),
                  turn_type |-> Get(payload, "turn_type", "normal"),
                  source |-> "manual"]
             r == execute_android_command(v.motor, command_data)
         IN [v EXCEPT !.motor = r.motor,
                      !.commands = Append(v.commands, command_data)]

\* _process_app_commands / _handle_app_command(message, protocol)
NoMessage == [type |-> "none"]

handle_app_command(v, message, timed_out) ==
    LET command_type == Get(message, "type", "unknown")
        payload == Get(message, "payload", [k \in {} |-> 0])
        w == [v EXCEPT !.received = command_type]
    IN IF message = NoMessage THEN v
       ELSE IF command_type = "SET_AUTO_MODE"
       THEN [w EXCEPT !.auto_mode = Get(payload, "enabled", FALSE)]
       ELSE IF command_type = "MANUAL_OVERRIDE"
       THEN LET on == Get(payload, "enabled", FALSE)
            IN [w EXCEPT !.manual_override = on,
                         !.motor = IF on THEN all_motors_stop(w.motor).motor
                                   ELSE w.motor]
       ELSE IF command_type = "EMERGENCY_STOP"
       THEN handle_emergency_stop(w)
       ELSE IF command_type = "RESET_EMERGENCY"
       THEN [w EXCEPT !.emergency_stop = FALSE]
       ELSE IF command_type = "MANUAL_CONTROL"
       THEN (IF w.manual_override THEN handle_manual_control(w, payload) ELSE w)
       ELSE IF command_type = "GET_STATUS"
       THEN [w EXCEPT !.motor = get_motor_status(w.motor, timed_out)]
       ELSE w

\* the steps of one iteration that follow the vision step, from the
\* vehicle state v at the start of the iteration (commands emptied)
\* a navigation step that does not look at manual_override
NavigationRuns_mut == auto_mode

\* if self.auto_mode and not self.manual_override
NavigationRuns == auto_mode /\ ~manual_override

AfterDispatch(v, raises) ==
    IF NavigationRuns
    THEN execute_navigation_decision(v, decision', raises) ELSE v

AfterStatus(v, timed_out, raises, fails) ==
    LET w == send_telemetry_data(AfterDispatch(v, raises), fails)
    IN [w EXCEPT !.motor = get_motor_status(w.motor, timed_out)]

SetVehicle(v) ==
    /\ auto_mode' = v.auto_mode
    /\ manual_override' = v.manual_override
    /\ emergency_stop' = v.emergency_stop
    /\ motor' = v.motor
    /\ commands' = v.commands
    /\ errors_logged' = v.log
    /\ command_received' = v.received

NoNavigation ==
    /\ environment' = NoEnvironment
    /\ raw_decision' = NoDecision
    /\ decision' = NoDecision
    /\ UNCHANGED <<decision_history, previous_actions, current_state, cycles>>

\* ------------------------------------------------------------------------
\* SmartVehicle._main_loop: one iteration per step
\* ------------------------------------------------------------------------
LoopDistances == {14, 19, TimeoutDistance}
LoopFrames ==
    {f \in Frames : /\ f.obstacle_distance = 0
                    /\ \/ f.path = "none" /\ f.center_x = 320
                       \/ f.path = "found" /\ f.center_x \in {270, 320}}
MessageSamples ==
    {NoMessage,
     [type |-> "SET_AUTO_MODE", payload |-> [enabled |-> TRUE]],
     [type |-> "SET_AUTO_MODE"],
     [type |-> "MANUAL_OVERRIDE", payload |-> [enabled |-> TRUE]],
     [type |-> "MANUAL_OVERRIDE"],
     [type |-> "EMERGENCY_STOP"],
     [type |-> "RESET_EMERGENCY"],
     [type |-> "MANUAL_CONTROL", payload |-> [action |-> "forward"]],
     [type |-> "GET_STATUS"]}

Start == VehicleState(auto_mode, manual_override, emergency_stop, motor, <<>>)

\* camera.read() fails: the iteration ends after the sensor reading
CaptureFails ==
    /\ ticks < MaxLoops
    /\ ticks' = ticks + 1
    /\ \E distance \in LoopDistances :
          sensor_data' = read_sensor_data(distance)
    /\ NoNavigation
    /\ SetVehicle(Start)
    /\ UNCHANGED <<loop_count, dirVars, visVars, signVars, lightVars, commVars>>

\* an emergency condition holds: emergency stop, then continue
EmergencyIteration ==
    /\ ticks < MaxLoops
    /\ ticks' = ticks + 1
    /\ \E distance \in LoopDistances, temp_critical \in BOOLEAN :
          /\ sensor_data' = read_sensor_data(distance)
          /\ check_emergency_conditions(sensor_data', temp_critical)
    /\ SkipFrame \/ \E frame \in LoopFrames : ProcessFrame(frame)
    /\ NoNavigation
    /\ SetVehicle(handle_emergency_stop(Start))
    /\ UNCHANGED <<loop_count, dirVars, signVars, lightVars, commVars>>

\* a full iteration: navigation in auto mode, status, app command
FullIteration ==
    /\ ticks < MaxLoops
    /\ ticks' = ticks + 1
    /\ \E distance \in LoopDistances :
          /\ sensor_data' = read_sensor_data(distance)
          /\ ~check_emergency_conditions(sensor_data', FALSE)
    /\ SkipFrame \/ \E frame \in LoopFrames : ProcessFrame(frame)
    /\ IF NavigationRuns
       THEN /\ process_navigation(navigation_data', sensor_data')
            /\ cycles' = cycles + 1
       ELSE NoNavigation
    /\ \E timed_out \in BOOLEAN, message \in MessageSamples :
          SetVehicle(handle_app_command(
                         AfterStatus(Start, timed_out, FALSE, FALSE),
                         message, timed_out))
    /\ loop_count' = loop_count + 1
    /\ UNCHANGED <<dirVars, signVars, lightVars, commVars>>

\* a full iteration in which a motor operation raises or the telemetry
\* send raises (no app command is pending)
FaultyIteration ==
    /\ ticks < MaxLoops
    /\ ticks' = ticks + 1
    /\ \E distance \in LoopDistances :
          /\ sensor_data' = read_sensor_data(distance)
          /\ ~check_emergency_conditions(sensor_data', FALSE)
    /\ SkipFrame \/ \E frame \in LoopFrames : ProcessFrame(frame)
    /\ IF NavigationRuns
       THEN /\ process_navigation(navigation_data', sensor_data')
            /\ cycles' = cycles + 1
       ELSE NoNavigation
    /\ \E raises \in BOOLEAN, fails \in BOOLEAN :
          /\ raises \/ fails
          /\ SetVehicle(handle_app_command(
                            AfterStatus(Start, FALSE, raises, fails),
                            NoMessage, FALSE))
    /\ loop_count' = loop_count + 1
    /\ UNCHANGED <<dirVars, signVars, lightVars, commVars>>

InitLoop ==
    /\ sensor_data = NoSensorData
    /\ environment = NoEnvironment
    /\ raw_decision = NoDecision
    /\ decision = NoDecision
    /\ decision_history = <<>>
    /\ previous_actions = <<>>
    /\ current_state = "IDLE"
    /\ cycles = 0
    /\ InitDirIdle
    /\ InitVision
    /\ InitVehicle
    /\ InitSigns
    /\ InitComm
    /\ InitLights

Next == CaptureFails \/ EmergencyIteration \/ FullIteration \/ FaultyIteration

Spec == InitLoop /\ [][Next]_vars

\* the autonomous commands of a command list
AutonomousCommands(cmds) ==
    {cmds[i] : i \in {j \in 1..Len(cmds) : cmds[j].source = "autonomous"}}

LoggedErrors(log) == {log[i] : i \in 1..Len(log)}

C17_SkippedCycleKeepsDecision ==
    [][(/\ frame_skip_counter' = frame_skip_counter + 1
        /\ frame_skip_counter' % 2 # 0
        /\ decision # NoDecision
        /\ decision' # NoDecision) =>
          /\ decision'.action = decision.action
          /\ decision'.speed = decision.speed
          /\ decision'.filtered = decision.filtered
          /\ decision_history' = decision_history]_vars

\* C4 (as claimed): in every auto-mode iteration whose raw decision is a
\* stop-class action with speed 0, the command handed to the motor
\* controller in that iteration has action keyword stop or emergency_stop,
\* never forward, left or right, whatever the earlier decisions were.
C4_StopIsDispatchedAsStop ==
    (raw_decision.action \in StopActions /\ raw_decision.speed = 0) =>
        \A i \in 1..Len(commands) :
            commands[i].source = "autonomous" =>
                commands[i].action \in {"stop", "emergency_stop"}

\* C29 (as claimed): in an iteration that starts with the motor
\* controller's emergency lockout set by a dispatched EMERGENCY_STOP
\* decision and that processes a RESET_EMERGENCY app command, the lockout
\* is clear at the end of the iteration.
C29_ResetClearsLockout ==
    [][(motor.emergency_stop_active /\ command_received' = "RESET_EMERGENCY")
           => ~motor'.emergency_stop_active]_vars

\* C30: an iteration that starts with the main loop's emergency_stop flag
\* set ends with it set unless it processed a RESET_EMERGENCY command, and
\* hands no forward, backward, left or right command to the motor
\* controller, from an autonomous decision or from MANUAL_CONTROL.
C30_EmergencyFlagBlocksMotion ==
    [][emergency_stop =>
           /\ command_received' # "RESET_EMERGENCY" => emergency_stop'
           /\ \A i \in 1..Len(commands') :
                  commands'[i].action
                      \notin {"forward", "backward", "left", "right"}]_vars

\* a MANUAL_CONTROL command processed in manual override while the flag is
\* set: nothing was handed to the motor controller
C30_Witness ==
    /\ emergency_stop
    /\ manual_override
    /\ command_received = "MANUAL_CONTROL"
    /\ commands = <<>>

\* C31: an iteration hands an autonomous command to the motor controller
\* only if it started with auto_mode set and manual_override clear, a
\* manual command only if it processed MANUAL_CONTROL with manual_override
\* set, and never both an autonomous and a manual command.
C31_AutonomousAndManualExclusive ==
    [][/\ \A i \in 1..Len(commands') :
              /\ commands'[i].source = "autonomous" =>
                     auto_mode /\ ~manual_override
              /\ commands'[i].source = "manual" =>
                     /\ manual_override /\ manual_override'
                     /\ command_received' = "MANUAL_CONTROL"
       /\ ~\E i, j \in 1..Len(commands') :
              /\ commands'[i].source = "autonomous"
              /\ commands'[j].source = "manual"]_vars

\* a manual command executed while auto_mode is set and overridden
C31_Witness ==
    /\ auto_mode
    /\ manual_override
    /\ Len(commands) = 1
    /\ commands[1].source = "manual"
    /\ commands[1].action = "forward"

\* ------------------------------------------------------------------------
\* Specification of the dispatch alone: one call of
\* _execute_navigation_decision on a fresh vehicle, with any action tag
\* ------------------------------------------------------------------------
DispatchSpeeds == {0, 10, reduced_speed, default_speed, 120}

DispatchDecisions ==
    [action : ActionTags, speed : DispatchSpeeds, reason : {"sample"},
     filtered : BOOLEAN]

InitDispatch ==
    /\ decision \in DispatchDecisions
    /\ sensor_data = NoSensorData
    /\ environment = NoEnvironment
    /\ raw_decision = NoDecision
    /\ decision_history = <<>>
    /\ previous_actions = <<>>
    /\ current_state = "IDLE"
    /\ cycles = 0
    /\ InitDirIdle
    /\ InitVision
    /\ InitVehicle
    /\ InitSigns
    /\ InitComm
    /\ InitLights

Dispatch ==
    /\ ticks = 0
    /\ ticks' = 1
    /\ \E raises \in BOOLEAN :
          SetVehicle(execute_navigation_decision(Start, decision, raises))
    /\ UNCHANGED <<navVars, dirVars, visVars, signVars, lightVars, commVars, loop_count>>

NextDispatch == Dispatch

SpecDispatch == InitDispatch /\ [][NextDispatch]_vars

\* the dispatch table as the claim words it
ClaimedKeyword(tag) ==
    IF tag = "MOVE_FORWARD" THEN "forward"
    ELSE IF tag \in {"TURN_LEFT", "SHARP_LEFT"} THEN "left"
    ELSE IF tag \in {"TURN_RIGHT", "SHARP_RIGHT"} THEN "right"
    ELSE IF tag = "EMERGENCY_STOP" THEN "emergency_stop"
    ELSE "stop"

MaxContours == 2
MaxPrevLights == 2

Contour(area, x, w, h, lit, color) ==
    [area |-> area, bbox |-> <<x, 100, w, h>>, lit |-> lit, color |-> color]

ContourSamples ==
    {Contour(300, 100, 20, 20, 200, "red"),
     Contour(300, 130, 20, 20, 200, "red"),
     Contour(300, 100, 20, 20, 200, "green"),
     Contour(300, 300, 20, 20, 200, "red"),
     Contour(400, 100, 50, 10, 400, "red"),
     Contour(150, 100, 20, 10, 150, "red"),
     Contour(400, 100, 10, 40, 300, "green"),
     Contour(50, 100, 8, 8, 60, "red"),
     Contour(5000, 100, 80, 80, 6000, "green"),
     Contour(300, 100, 20, 20, 80, "red")}

PrevLightSamples ==
    {LightOf(Contour(300, x, 20, 20, 200, "red")) : x \in {100, 140, 150}}
        \cup {LightOf(Contour(300, 100, 20, 20, 200, "green"))}

ListsUpTo(S, n) == UNION {[1..k -> S] : k \in 0..n}

InitLightSpec ==
    /\ sensor_data = NoSensorData
    /\ environment = NoEnvironment
    /\ raw_decision = NoDecision
    /\ decision = NoDecision
    /\ decision_history = <<>>
    /\ previous_actions = <<>>
    /\ current_state = "IDLE"
    /\ cycles = 0
    /\ InitDirIdle
    /\ InitVision
    /\ InitVehicle
    /\ InitSigns
    /\ InitComm
    /\ contours \in ListsUpTo(ContourSamples, MaxContours)
    /\ lights = <<>>
    /\ prev_lights \in ListsUpTo(PrevLightSamples, MaxPrevLights)
    /\ tracked_lights = <<>>
    /\ light_matches = <<>>

DetectLights ==
    /\ ticks = 0
    /\ ticks' = 1
    /\ lights' = detect_traffic_lights(contours)
    /\ UNCHANGED <<navVars, dirVars, visVars, signVars, commVars, auto_mode,
                   manual_override, emergency_stop, loop_count, commands,
                   motor, errors_logged, command_received, contours,
                   prev_lights,
                   tracked_lights, light_matches>>

TrackLights ==
    /\ ticks = 1
    /\ ticks' = 2
    /\ LET r == track_lights(prev_lights, lights)
       IN /\ tracked_lights' = r.tracked_lights
          /\ light_matches' = r.matches
    /\ UNCHANGED <<navVars, dirVars, visVars, signVars, commVars, auto_mode,
                   manual_override, emergency_stop, loop_count, commands,
                   motor, errors_logged, command_received, contours, lights,
                   prev_lights>>

NextLights == DetectLights \/ TrackLights

SpecLights == InitLightSpec /\ [][NextLights]_vars

\* the aspect ratio w / h lies in [0.5, 2.0]
AspectWithinClosedRange(c) ==
    c.bbox[4] > 0 /\ c.bbox[4] <= 2 * c.bbox[3] /\ c.bbox[3] <= 2 * c.bbox[4]

\* the three conditions under which a detection may be emitted
MayBeEmitted(c) ==
    /\ LightMinArea < c.area /\ c.area < LightMaxArea
    /\ AspectWithinClosedRange(c)
    /\ c.lit * 10 > 2 * c.bbox[3] * c.bbox[4]

EmittedFrom(l, c) == l.bbox = c.bbox /\ l.color = c.color

\* C24: once detect_traffic_lights has run, no contour whose aspect ratio
\* w / h is outside [0.5, 2.0] has a detection in the result, and every
\* detection in the result comes from a contour whose area is inside the
\* area window, whose aspect ratio is in range and whose intensity is
\* above 0.2.
C24_OnlyWellShapedContoursEmit ==
    ticks >= 1 =>
        /\ \A i \in 1..Len(contours) :
               ~AspectWithinClosedRange(contours[i]) =>
                   \A k \in 1..Len(lights) : ~EmittedFrom(lights[k], contours[i])
        /\ \A k \in 1..Len(lights) :
               \E i \in 1..Len(contours) :
                   EmittedFrom(lights[k], contours[i]) /\ MayBeEmitted(contours[i])

\* a frame with a contour of aspect ratio 5.0, in the area window and fully
\* lit, next to one that is detected
C24_Witness ==
    /\ ticks >= 1
    /\ Len(lights) = 1
    /\ \E i \in 1..Len(contours) :
           /\ contours[i].bbox[3] = 5 * contours[i].bbox[4]
           /\ AreaInWindow(contours[i].area)
           /\ BrightEnough(LightIntensity(contours[i].bbox[3],
                                          contours[i].bbox[4], contours[i].lit))

\* the new lights taken by the previous lights before the k-th
TakenBefore(k) == {light_matches[j] : j \in 1..(k - 1)} \ {0}

LightDistance2(k, i) ==
    SquaredDistance(LightCentre(prev_lights[k]), LightCentre(lights[i]))

\* the matched new lights in the order of the previous lights
RECURSIVE MatchedLights(_)
MatchedLights(k) ==
    IF k > Len(light_matches) THEN <<>>
    ELSE IF light_matches[k] = 0 THEN MatchedLights(k + 1)
         ELSE <<lights[light_matches[k]]>> \o MatchedLights(k + 1)

\* the new lights no previous light was matched to, in their order
RECURSIVE LeftOver(_)
LeftOver(i) ==
    IF i > Len(lights) THEN <<>>
    ELSE IF i \in TakenBefore(Len(light_matches) + 1) THEN LeftOver(i + 1)
         ELSE <<lights[i]>> \o LeftOver(i + 1)

TimesIn(seq, x) == Cardinality({i \in 1..Len(seq) : seq[i] = x})

\* C25: once track_lights has run, every previous light is matched to at
\* most one new detection and no new detection to two previous lights; a
\* match has the colour of the previous light, its centre is strictly
\* closer than max_distance and no nearer new detection of that colour was
\* still unused; the tracked list is the matched detections followed by
\* the unmatched ones, and holds every new detection exactly as often as
\* the new detections do and nothing else.
C25_TrackingMatchesNearestSameColour ==
    ticks = 2 =>
        /\ \A k \in 1..Len(light_matches) :
               light_matches[k] # 0 =>
                   /\ light_matches[k] \in 1..Len(lights)
                   /\ light_matches[k] \notin TakenBefore(k)
                   /\ lights[light_matches[k]].color = prev_lights[k].color
                   /\ LightDistance2(k, light_matches[k])
                          < LightMaxDistance * LightMaxDistance
                   /\ \A i \in 1..Len(lights) \ TakenBefore(k) :
                          lights[i].color = prev_lights[k].color =>
                              LightDistance2(k, light_matches[k])
                                  <= LightDistance2(k, i)
        /\ prev_lights # <<>> => Len(light_matches) = Len(prev_lights)
        /\ tracked_lights = MatchedLights(1) \o LeftOver(1)
        /\ Len(tracked_lights) = Len(lights)
        /\ \A i \in 1..Len(lights) :
               TimesIn(tracked_lights, lights[i]) = TimesIn(lights, lights[i])

\* two previous lights, one matched to the second new detection and one
\* left without a match, and a new detection nobody took
C25_Witness ==
    /\ ticks = 2
    /\ Len(lights) = 2
    /\ light_matches = <<2, 0>>
    /\ tracked_lights = <<lights[2], lights[1]>>
    /\ lights[1] # lights[2]

\* ------------------------------------------------------------------------
\* Specification of the ProtocolManager with its two handlers: messages are
\* sent, connections come up (the reconnect loop and the accept loop then
\* flush the retry buffer) and go down.  ticks counts the calls.
\* ------------------------------------------------------------------------
MaxCommSteps == 5

ProtocolArguments == {"none", "wifi", "ble"}
ClockSamples == {1000, 1001}
FlushBudgets == {0, 1, MaxFlushIterations}

InitCommSpec ==
    /\ sensor_data = NoSensorData
    /\ environment = NoEnvironment
    /\ raw_decision = NoDecision
    /\ decision = NoDecision
    /\ decision_history = <<>>
    /\ previous_actions = <<>>
    /\ current_state = "IDLE"
    /\ cycles = 0
    /\ InitDirIdle
    /\ InitVision
    /\ InitVehicle
    /\ InitSigns
    /\ InitLights
    /\ InitComm

CommFrame ==
    /\ ticks' = ticks + 1
    /\ UNCHANGED <<navVars, dirVars, visVars, signVars, lightVars, auto_mode,
                   manual_override, emergency_stop, loop_count, commands,
                   motor, errors_logged, command_received>>

CommSend ==
    /\ ticks < MaxCommSteps
    /\ CommFrame
    /\ \E requested \in ProtocolArguments, now \in ClockSamples,
          ok_wifi \in BOOLEAN, ok_ble \in BOOLEAN :
          LET r == send_message(manager, wifi, ble, requested, now,
                                ok_wifi, ok_ble)
          IN /\ manager' = r.manager
             /\ wifi' = r.wifi
             /\ ble' = r.ble
             /\ last_call' = [op |-> "send_message",
                              protocol |-> r.protocol,
                              success |-> r.success,
                              message_id |-> r.message_id]

\* _auto_reconnect_loop: connect_wifi() succeeded, _send_buffered_data()
WifiReconnect(budget) ==
    LET r == send_buffered_data([wifi EXCEPT !.connected = TRUE], budget)
    IN /\ ~wifi.connected
       /\ wifi' = r.handler
       /\ last_call' = [op |-> "wifi_reconnect",
                        iterations |-> r.iterations,
                        terminated |-> r.terminated]

\* _accept_connections: a client connected, _send_buffered_data()
BleAccept(budget) ==
    LET r == send_buffered_data([ble EXCEPT !.connected = TRUE], budget)
    IN /\ ~ble.connected
       /\ ble' = r.handler
       /\ last_call' = [op |-> "ble_accept",
                        iterations |-> r.iterations,
                        terminated |-> r.terminated]

\* disconnect_wifi, or receive_data raised
WifiLost ==
    /\ wifi.connected
    /\ wifi' = [wifi EXCEPT !.connected = FALSE]
    /\ last_call' = [op |-> "wifi_lost"]

\* disconnect_ble, or receive_data raised
BleLost ==
    /\ ble.connected
    /\ ble' = [ble EXCEPT !.connected = FALSE]
    /\ last_call' = [op |-> "ble_lost"]

CommWifiReconnect ==
    /\ ticks < MaxCommSteps
    /\ CommFrame
    /\ \E budget \in FlushBudgets : WifiReconnect(budget)
    /\ UNCHANGED <<ble, manager>>

CommBleAccept ==
    /\ ticks < MaxCommSteps
    /\ CommFrame
    /\ \E budget \in FlushBudgets : BleAccept(budget)
    /\ UNCHANGED <<wifi, manager>>

CommWifiLost ==
    /\ ticks < MaxCommSteps
    /\ CommFrame
    /\ WifiLost
    /\ UNCHANGED <<ble, manager>>

CommBleLost ==
    /\ ticks < MaxCommSteps
    /\ CommFrame
    /\ BleLost
    /\ UNCHANGED <<wifi, manager>>

CommManage ==
    /\ ticks < MaxCommSteps
    /\ CommFrame
    /\ manager' = manage_protocols(manager, wifi, ble)
    /\ last_call' = [op |-> "manage_protocols"]
    /\ UNCHANGED <<wifi, ble>>

NextComm ==
    CommSend \/ CommWifiReconnect \/ CommBleAccept \/ CommWifiLost
        \/ CommBleLost \/ CommManage

SpecComm == InitCommSpec /\ [][NextComm]_vars

\* the step is a call of send_message
Sends == last_call'.op = "send_message" /\ ticks' = ticks + 1

\* the handler transmitted the message in the step
Transmits(h, hNext, message) == hNext.sent = Append(h.sent, message)

\* C35: a send_message call reports success exactly when the message was
\* transmitted by the requested protocol or, that one failing, by the
\* other; sent_messages gains one entry on success, which names the
\* protocol that transmitted, and none on failure; the counter grows by 1
\* in every call and the new id differs from the id of every entry.
C35_SuccessIffDelivered ==
    [][Sends =>
          LET id == last_call'.message_id
              requested == last_call'.protocol
              by_wifi == Transmits(wifi, wifi', id)
              by_ble == Transmits(ble, ble', id)
          IN /\ last_call'.success <=> (by_wifi \/ by_ble)
             /\ ~(by_wifi /\ by_ble)
             /\ ~by_wifi => wifi'.sent = wifi.sent
             /\ ~by_ble => ble'.sent = ble.sent
             /\ (requested = "wifi" /\ by_ble) => ~wifi'.connected
             /\ (requested = "ble" /\ by_wifi) => ~ble'.connected
             /\ last_call'.success =>
                    manager'.sent_messages = manager.sent_messages \cup
                        {[id |-> id,
                          protocol_used |-> IF by_wifi THEN "wifi" ELSE "ble"]}
             /\ ~last_call'.success =>
                    manager'.sent_messages = manager.sent_messages
             /\ manager'.message_id_counter = manager.message_id_counter + 1
             /\ id[1] = manager'.message_id_counter
             /\ \A e \in manager.sent_messages : e.id # id]_vars

\* a message requested over WiFi that the fallback delivered over BLE, after
\* a call that failed on both
C35_Witness ==
    /\ last_call.op = "send_message"
    /\ last_call.success
    /\ last_call.protocol = "wifi"
    /\ [id |-> last_call.message_id, protocol_used |-> "ble"]
           \in manager.sent_messages
    /\ Cardinality(manager.sent_messages) < manager.message_id_counter

\* C36 (as claimed): a message that send_message reported as sent is in
\* neither handler's retry buffer, and each handler has transmitted it at
\* most once.
C36_SentMessagesNotBuffered ==
    \A e \in manager.sent_messages :
        /\ \A i \in 1..Len(wifi.data_buffer) : wifi.data_buffer[i] # e.id
        /\ \A i \in 1..Len(ble.data_buffer) : ble.data_buffer[i] # e.id
        /\ Cardinality({i \in 1..Len(wifi.sent) : wifi.sent[i] = e.id}) <= 1
        /\ Cardinality({i \in 1..Len(ble.sent) : ble.sent[i] = e.id}) <= 1

\* ------------------------------------------------------------------------
\* Specification of one handler's retry buffer at its real capacity.  The
\* handler starts with the buffer that some number of sends without a
\* connection leave (the messages are numbered in the order they were
\* sent); then data is sent, the connection comes up and the buffer is
\* flushed, the connection goes down.  The handlers share no state, so
\* each behaviour exercises one of them.
\* ------------------------------------------------------------------------
MaxRetrySteps == 3

RetryBudgets == {0, 1, 30, MaxFlushIterations}

\* the handler after n sends that found no connection
Backlog(max_buffer_size, n) ==
    [InitHandler(max_buffer_size) EXCEPT !.data_buffer = [i \in 1..n |-> i]]

InitRetrySpec ==
    /\ sensor_data = NoSensorData
    /\ environment = NoEnvironment
    /\ raw_decision = NoDecision
    /\ decision = NoDecision
    /\ decision_history = <<>>
    /\ previous_actions = <<>>
    /\ current_state = "IDLE"
    /\ cycles = 0
    /\ InitDirIdle
    /\ InitVision
    /\ InitVehicle
    /\ InitSigns
    /\ InitLights
    /\ manager = InitManager
    /\ last_call = [op |-> "none"]
    /\ \/ /\ \E n \in 0..WifiMaxBufferSize :
                wifi = Backlog(WifiMaxBufferSize, n)
          /\ ble = InitHandler(BleMaxBufferSize)
       \/ /\ \E n \in 0..BleMaxBufferSize :
                ble = Backlog(BleMaxBufferSize, n)
          /\ wifi = InitHandler(WifiMaxBufferSize)

\* the number of the message sent in this step
NextMessage(h) == h.max_buffer_size + ticks + 1

WifiIdle == wifi = InitHandler(WifiMaxBufferSize)
BleIdle == ble = InitHandler(BleMaxBufferSize)

\* wifi_handler.send_data(data), called by send_telemetry and send_status
RetryWifiSend ==
    /\ ticks < MaxRetrySteps
    /\ BleIdle
    /\ CommFrame
    /\ \E ok \in BOOLEAN :
          LET r == send_data(wifi, NextMessage(wifi), ok)
          IN /\ wifi' = r.handler
             /\ last_call' = [op |-> "send_data", success |-> r.success]
    /\ UNCHANGED <<ble, manager>>

\* ble_handler.transmit_data(data), called by send_vehicle_status and
\* send_alert
RetryBleSend ==
    /\ ticks < MaxRetrySteps
    /\ WifiIdle
    /\ CommFrame
    /\ \E ok \in BOOLEAN :
          LET r == send_data(ble, NextMessage(ble), ok)
          IN /\ ble' = r.handler
             /\ last_call' = [op |-> "transmit_data", success |-> r.success]
    /\ UNCHANGED <<wifi, manager>>

RetryWifiReconnect ==
    /\ ticks < MaxRetrySteps
    /\ BleIdle
    /\ CommFrame
    /\ \E budget \in RetryBudgets : WifiReconnect(budget)
    /\ UNCHANGED <<ble, manager>>

RetryBleAccept ==
    /\ ticks < MaxRetrySteps
    /\ WifiIdle
    /\ CommFrame
    /\ \E budget \in RetryBudgets : BleAccept(budget)
    /\ UNCHANGED <<wifi, manager>>

RetryWifiLost ==
    /\ ticks < MaxRetrySteps
    /\ BleIdle
    /\ CommFrame
    /\ WifiLost
    /\ UNCHANGED <<ble, manager>>

RetryBleLost ==
    /\ ticks < MaxRetrySteps
    /\ WifiIdle
    /\ CommFrame
    /\ BleLost
    /\ UNCHANGED <<wifi, manager>>

NextRetry ==
    RetryWifiSend \/ RetryBleSend \/ RetryWifiReconnect \/ RetryBleAccept
        \/ RetryWifiLost \/ RetryBleLost

SpecRetry == InitRetrySpec /\ [][NextRetry]_vars

\* the step is a send that the handler buffered while its buffer was full
BuffersWhenFull(h, hNext) ==
    /\ last_call'.op \in {"send_data", "transmit_data"}
    /\ ~last_call'.success
    /\ hNext # h
    /\ Len(h.data_buffer) = h.max_buffer_size

\* C37: the WiFi buffer never holds more than 100 and the BLE buffer never
\* more than 50 messages, whatever is sent and however the flushes end;
\* a message buffered into a full buffer takes the place of the oldest.
C37_BuffersStayWithinCapacity ==
    [][/\ Len(wifi'.data_buffer) <= WifiMaxBufferSize
       /\ Len(ble'.data_buffer) <= BleMaxBufferSize
       /\ BuffersWhenFull(wifi, wifi') =>
              wifi'.data_buffer =
                  Append(Tail(wifi.data_buffer), NextMessage(wifi))
       /\ BuffersWhenFull(ble, ble') =>
              ble'.data_buffer =
                  Append(Tail(ble.data_buffer), NextMessage(ble))]_vars

\* a full WiFi buffer whose oldest message was evicted by a send that
\* followed a flush cut short by the connection
C37_Witness ==
    /\ last_call.op = "send_data"
    /\ ~last_call.success
    /\ Len(wifi.data_buffer) = WifiMaxBufferSize
    /\ wifi.data_buffer[1] # 1
    /\ wifi.data_buffer[WifiMaxBufferSize] = NextMessage(wifi) - 1
    /\ wifi.sent # <<>>

\* the step is a flush of the retry buffer
Flushes ==
    /\ last_call'.op \in {"wifi_reconnect", "ble_accept"}
    /\ ticks' = ticks + 1

\* the messages the handler transmitted in the step
Delivered(h, hNext) ==
    {hNext.sent[i] : i \in (Len(h.sent) + 1)..Len(hNext.sent)}

\* every message of the buffer was transmitted in the step or is in the
\* buffer after it
KeepsUndelivered(h, hNext) ==
    \A i \in 1..Len(h.data_buffer) :
        \/ h.data_buffer[i] \in Delivered(h, hNext)
        \/ \E j \in 1..Len(hNext.data_buffer) :
               hNext.data_buffer[j] = h.data_buffer[i]

\* C38 (as claimed): a flush terminates, and every buffered message that
\* it did not deliver, the connection dropping part-way included, is in
\* the buffer afterwards.
C38_FlushTerminatesKeepingUndelivered ==
    [][Flushes =>
          /\ last_call'.terminated
          /\ KeepsUndelivered(wifi, wifi')
          /\ KeepsUndelivered(ble, ble')]_vars

\* ------------------------------------------------------------------------
MaxCommands == 4

MotionKeywords == {"forward", "backward", "left", "right"}

MotorSpeedSamples == {5, 60, 150}

MotorCommandSamples ==
    {[action |-> a, speed |-> sp, source |-> "manual"] :
        a \in MotionKeywords \cup {"stop", "emergency_stop"},
        sp \in MotorSpeedSamples}
    \cup {[action |-> "forward"],
          [action |-> "left", speed |-> 60, turn_type |-> "sharp"],
          [action |-> "forward", speed |-> 60, duration |-> 1],
          [action |-> "spin", speed |-> 60],
          EmptyDict}

SpeedParameterSamples ==
    {[max_speed |-> 10], [max_speed |-> 150], [min_speed |-> 120],
     [min_speed |-> -5], [default |-> 130],
     [max_speed |-> 40, min_speed |-> 60]}

InitMotorSpec ==
    /\ sensor_data = NoSensorData
    /\ environment = NoEnvironment
    /\ raw_decision = NoDecision
    /\ decision = NoDecision
    /\ decision_history = <<>>
    /\ previous_actions = <<>>
    /\ current_state = "IDLE"
    /\ cycles = 0
    /\ InitDirIdle
    /\ InitVision
    /\ InitVehicle
    /\ InitSigns
    /\ InitComm
    /\ InitLights

MotorFrame ==
    /\ ticks < MaxCommands
    /\ ticks' = ticks + 1
    /\ UNCHANGED <<navVars, dirVars, visVars, signVars, lightVars, commVars, auto_mode,
                   manual_override, emergency_stop, loop_count,
                   errors_logged, command_received>>

MotorCommand ==
    /\ MotorFrame
    /\ \E command_data \in MotorCommandSamples :
          LET r == execute_android_command(motor, command_data)
          IN /\ motor' = r.motor
             /\ commands' = <<[op |-> "execute_android_command",
                               action |-> Get(command_data, "action", "stop"),
                               speed |-> validated_speed(motor, command_data),
                               duration |-> Get(command_data, "duration", 0),
                               success |-> r.success]>>

MotorSetSpeed ==
    /\ MotorFrame
    /\ \E args \in SpeedParameterSamples :
          /\ motor' = set_speed_parameters(motor, args)
          /\ commands' = <<[op |-> "set_speed_parameters"]>>

MotorReset ==
    /\ MotorFrame
    /\ motor' = reset_emergency_stop(motor)
    /\ commands' = <<[op |-> "reset_emergency_stop"]>>

MotorSmooth ==
    /\ MotorFrame
    /\ \E enabled \in BOOLEAN :
          motor' = enable_smooth_control(motor, enabled)
    /\ commands' = <<[op |-> "enable_smooth_control"]>>

MotorStatus ==
    /\ MotorFrame
    /\ \E timed_out \in BOOLEAN :
          /\ motor' = get_motor_status(motor, timed_out)
          /\ commands' = <<[op |-> "get_motor_status",
                            timed_out |-> timed_out]>>

NextMotor ==
    MotorCommand \/ MotorSetSpeed \/ MotorReset \/ MotorSmooth \/ MotorStatus

SpecMotor == InitMotorSpec /\ [][NextMotor]_vars

\* the step is a call of execute_android_command
Executes == commands'[1].op = "execute_android_command" /\ ticks' = ticks + 1

\* C21: while emergency_stop_active is set, every forward, backward, left
\* and right command is rejected (returns False) and leaves motor_state,
\* current_speed and total_commands unchanged; stop and emergency_stop
\* commands are still accepted.
C21_LockoutRejectsMotion ==
    [][(Executes /\ motor.emergency_stop_active) =>
          /\ commands'[1].action \in MotionKeywords =>
                /\ ~commands'[1].success
                /\ motor' = motor
          /\ commands'[1].action \in {"stop", "emergency_stop"} =>
                /\ commands'[1].success
                /\ motor'.current_action = "stopped"
                /\ motor'.current_speed = 0]_vars

\* a forward command was rejected under lockout after the motors had run
C21_Witness ==
    /\ motor.emergency_stop_active
    /\ motor.total_commands > 1
    /\ commands = <<[op |-> "execute_android_command", action |-> "forward",
                     speed |-> 60, duration |-> 0, success |-> FALSE]>>

\* the last call was a motion command that was accepted and that did not
\* ask for a stop after a duration
MotionAccepted(cmds) ==
    /\ cmds # <<>>
    /\ cmds[1].op = "execute_android_command"
    /\ cmds[1].action \in MotionKeywords
    /\ cmds[1].success
    /\ cmds[1].duration = 0

\* the values of motor_state.current_action that stand for the command
CommandedActions(action) ==
    IF action = "left"
    THEN {"turn_left_normal", "turn_left_sharp", "turn_left_pivot"}
    ELSE IF action = "right"
    THEN {"turn_right_normal", "turn_right_sharp", "turn_right_pivot"}
    ELSE {action}

\* C32 (as claimed): when the last call was an accepted forward, backward
\* or turn command, the emergency stop is not active and get_motor_status
\* is called after more than command_timeout without a command, the call
\* stops all motors: current_speed is 0 and current_action is stopped.
C32_WatchdogStopsMotors ==
    [][(/\ MotionAccepted(commands)
        /\ ~motor.emergency_stop_active
        /\ ticks' = ticks + 1
        /\ commands'[1].op = "get_motor_status"
        /\ commands'[1].timed_out)
           => /\ motor'.current_speed = 0
              /\ motor'.current_action = "stopped"]_vars

\* C33 (as claimed): every accepted forward, backward, left or right
\* command, with smooth control enabled or disabled, sets
\* motor_state.current_action to the commanded action (which
\* _update_motor_state does together with refreshing last_command_time)
\* and increments total_commands by exactly 1.
C33_AcceptedMotionIsRecorded ==
    [][(Executes /\ MotionAccepted(commands')) =>
           /\ motor'.current_action \in CommandedActions(commands'[1].action)
           /\ motor'.total_commands = motor.total_commands + 1]_vars

\* C23: after any sequence of set_speed_parameters calls
\* 0 <= min_speed <= max_speed <= 100 holds, and every speed that
\* execute_android_command passes to a motor operation lies in
\* [min_speed, max_speed].
C23_SpeedLimitsOrdered ==
    /\ 0 <= motor.min_speed
    /\ motor.min_speed <= motor.max_speed
    /\ motor.max_speed <= 100
    /\ (commands # <<>> /\ commands[1].op = "execute_android_command") =>
          /\ motor.min_speed <= commands[1].speed
          /\ commands[1].speed <= motor.max_speed
          /\ (commands[1].success /\ commands[1].action \in {"left", "right"})
                => motor.target_speed = commands[1].speed

\* both limits were moved to 40 and a command asking for 150 was run at 40
C23_Witness ==
    /\ motor.min_speed = 40
    /\ motor.max_speed = 40
    /\ commands = <<[op |-> "execute_android_command", action |-> "left",
                     speed |-> 40, duration |-> 0, success |-> TRUE]>>
    /\ motor.target_speed = 40

\* The conditions of rules 1, 2 and 3 as the specification words them
Rule1Matches ==
    environment.obstacle_detected
        /\ environment.obstacle_distance < obstacle_stop_distance
Rule2Matches ==
    environment.traffic_light = "RED"
        /\ environment.traffic_light_confidence > 70
Rule3Matches == environment.stop_sign_detected

\* C5: when rule 1 does not match, the raw decision is TRAFFIC_STOP with
\* speed 0 exactly when the light is RED with confidence strictly above 0.7;
\* when rules 1 and 2 do not match and a stop sign is present, it is
\* STOP_SIGN_STOP with speed 0, for every lane direction and distance.
C5_TrafficAndStopSign ==
    (Decided /\ ~Rule1Matches) =>
        /\ (raw_decision.action = "TRAFFIC_STOP") <=> Rule2Matches
        /\ (raw_decision.action = "TRAFFIC_STOP") => raw_decision.speed = 0
        /\ (~Rule2Matches /\ Rule3Matches) =>
               (raw_decision.action = "STOP_SIGN_STOP" /\ raw_decision.speed = 0)

C5_Witness ==
    /\ Decided
    /\ ~environment.obstacle_detected
    /\ environment.traffic_light = "RED"
    /\ environment.traffic_light_confidence = 70
    /\ environment.stop_sign_detected
    /\ raw_decision.action = "STOP_SIGN_STOP"

\* C6 (as claimed): when rules 1 to 5 do not match, the raw decision is the
\* cautious MOVE_FORWARD at reduced speed only if the lane direction is
\* UNKNOWN and obstacle_distance > 30; in every other case (SHARP_LEFT,
\* SHARP_RIGHT, or UNKNOWN at 30 or less) it is STOP with speed 0.
C6_DefaultOnlyWhenUnknown ==
    (Decided /\ ~Rule1Matches /\ ~Rule2Matches /\ ~Rule3Matches
             /\ environment.lane_direction \notin {"LEFT", "RIGHT", "STRAIGHT"}) =>
        IF environment.lane_direction = "UNKNOWN"
              /\ environment.obstacle_distance > safe_distance
        THEN raw_decision.action = "MOVE_FORWARD"
                /\ raw_decision.speed = reduced_speed
        ELSE raw_decision.action = "STOP" /\ raw_decision.speed = 0

\* C7: when rules 1 to 3 do not match, LEFT gives TURN_LEFT and RIGHT gives
\* TURN_RIGHT at 50 with a speed-limit sign and 75 without; STRAIGHT gives
\* MOVE_FORWARD at 50 if obstacle_distance < 30 or a speed-limit sign is
\* present, and at 75 otherwise.
C7_LaneFollowing ==
    (Decided /\ ~Rule1Matches /\ ~Rule2Matches /\ ~Rule3Matches) =>
        /\ environment.lane_direction = "LEFT" =>
              /\ raw_decision.action = "TURN_LEFT"
              /\ raw_decision.speed =
                    IF environment.speed_limit_detected THEN 50 ELSE 75
        /\ environment.lane_direction = "RIGHT" =>
              /\ raw_decision.action = "TURN_RIGHT"
              /\ raw_decision.speed =
                    IF environment.speed_limit_detected THEN 50 ELSE 75
        /\ environment.lane_direction = "STRAIGHT" =>
              /\ raw_decision.action = "MOVE_FORWARD"
              /\ raw_decision.speed =
                    IF environment.obstacle_distance < 30
                          \/ environment.speed_limit_detected
                    THEN 50 ELSE 75

C7_Witness ==
    /\ Decided
    /\ environment.lane_direction = "STRAIGHT"
    /\ environment.obstacle_distance = 29
    /\ ~environment.obstacle_detected
    /\ ~environment.speed_limit_detected
    /\ raw_decision.action = "MOVE_FORWARD"
    /\ raw_decision.speed = 50

====
